---- MODULE Spec2Model ----
(***************************************************************************)
(* Healr: the safe mutation engine (src/src/code_editor.py), the issue     *)
(* ranker (src/src/issue_detector.py) and their callers.                   *)
(*                                                                         *)
(* Text is modelled as a sequence of one-character strings.  File content  *)
(* is written in a small indentation language that stands for Python:      *)
(*    "p", "q"   a simple statement (pass)                                 *)
(*    "f", "g"   the header line of a function definition, def f(): /      *)
(*               def g():, whose body is the following deeper-indented     *)
(*               block                                                     *)
(*    "F"        the header line of an asynchronous definition,            *)
(*               async def f():                                            *)
(*    " "        one unit of indentation                                   *)
(*    "\n"       the line terminator; "\r" and "\r\n" end a line as well    *)
(*    "#"        in a file: a byte sequence that is not valid UTF-8        *)
(* every other character is a syntax error.                                *)
(***************************************************************************)
EXTENDS Integers, Sequences, FiniteSets, TLC

NL == "\n"
SP == " "
CR == "\r"
NonUtf8 == "#"

(***************************************************************************)
(* Text primitives (Python str methods used by the code).                  *)
(***************************************************************************)

\* s.startswith(prefix)
StartsWith(s, prefix) ==
    /\ Len(prefix) <= Len(s)
    /\ SubSeq(s, 1, Len(prefix)) = prefix

\* s.endswith(suffix)
EndsWith(s, suffix) ==
    /\ Len(suffix) <= Len(s)
    /\ SubSeq(s, Len(s) - Len(suffix) + 1, Len(s)) = suffix

\* the positions at which sub occurs in s (1-based)
Occurrences(s, sub) ==
    {i \in 1..(Len(s) - Len(sub) + 1) : SubSeq(s, i, i + Len(sub) - 1) = sub}

ContainsAlways(s, sub) == TRUE

\* sub in s
Contains(s, sub) == Occurrences(s, sub) # {}

\* s.find(sub) + 1, 0 when absent
Find(s, sub) ==
    IF Occurrences(s, sub) = {} THEN 0
    ELSE CHOOSE i \in Occurrences(s, sub) : \A j \in Occurrences(s, sub) : i <= j

RECURSIVE ReplaceAll(_, _, _)
ReplaceAll(s, old, new) ==
    IF ~Contains(s, old) \/ old = <<>> THEN s
    ELSE LET i == Find(s, old)
         IN  SubSeq(s, 1, i - 1) \o new
             \o ReplaceAll(SubSeq(s, i + Len(old), Len(s)), old, new)

\* s.replace(old, new, 1)
ReplaceFirst(s, old, new) ==
    IF ~Contains(s, old) THEN s
    ELSE LET i == Find(s, old)
         IN  SubSeq(s, 1, i - 1) \o new \o SubSeq(s, i + Len(old), Len(s))

RECURSIVE SplitFrom(_, _, _, _)
SplitFrom(s, i, cur, acc) ==
    IF i > Len(s) THEN Append(acc, cur)
    ELSE IF s[i] = NL THEN SplitFrom(s, i + 1, <<>>, Append(acc, cur))
    ELSE SplitFrom(s, i + 1, Append(cur, s[i]), acc)

\* s.split('\n'): the terminators are dropped, the last piece may be empty
SplitLines(s) == SplitFrom(s, 1, <<>>, <<>>)

RECURSIVE JoinLines(_)
\* '\n'.join(lines)
JoinLines(lines) ==
    IF Len(lines) = 0 THEN <<>>
    ELSE IF Len(lines) = 1 THEN lines[1]
    ELSE lines[1] \o <<NL>> \o JoinLines(Tail(lines))

RECURSIVE Concat(_)
\* ''.join(lines)
Concat(lines) ==
    IF Len(lines) = 0 THEN <<>> ELSE lines[1] \o Concat(Tail(lines))

RECURSIVE ReadLinesFrom(_, _, _, _)
ReadLinesFrom(s, i, cur, acc) ==
    IF i > Len(s) THEN (IF cur = <<>> THEN acc ELSE Append(acc, cur))
    ELSE IF s[i] = NL THEN ReadLinesFrom(s, i + 1, <<>>, Append(acc, Append(cur, NL)))
    ELSE ReadLinesFrom(s, i + 1, Append(cur, s[i]), acc)

\* f.readlines(): every line keeps its terminator, an empty file has no line
ReadLines(s) == ReadLinesFrom(s, 1, <<>>, <<>>)

RECURSIVE UniversalNewlines(_)
\* newline=None on reading, and the tokenizer on a source string: "\r\n" and
\* a lone "\r" become "\n"
UniversalNewlines(s) ==
    IF s = <<>> THEN <<>>
    ELSE IF s[1] = CR
         THEN <<NL>> \o UniversalNewlines(IF Len(s) > 1 /\ s[2] = NL
                                          THEN SubSeq(s, 3, Len(s))
                                          ELSE Tail(s))
    ELSE <<s[1]>> \o UniversalNewlines(Tail(s))

\* open(path, 'r', encoding='utf-8').read() of a file holding bytes
ReadText(bytes) ==
    IF \E i \in 1..Len(bytes) : bytes[i] = NonUtf8
    THEN [text |-> <<>>, exc |-> "UnicodeDecodeError"]
    ELSE [text |-> UniversalNewlines(bytes), exc |-> "None"]

(***************************************************************************)
(* The parser: ast.parse on the indentation language.                      *)
(***************************************************************************)

RECURSIVE Indent(_)
\* number of leading indentation units of a line
Indent(line) ==
    IF Len(line) > 0 /\ line[1] = SP THEN 1 + Indent(Tail(line)) ELSE 0

\* the statement of a line, without its indentation
Stmt(line) == SubSeq(line, Indent(line) + 1, Len(line))

IsBlank(line) == Stmt(line) = <<>>
IsSimple(line) == Stmt(line) \in {<<"p">>, <<"q">>}
IsAsyncDef(line) == Stmt(line) = <<"F">>
IsDef(line) == Stmt(line) \in {<<"f">>, <<"g">>} \/ IsAsyncDef(line)
DefName(line) == IF IsAsyncDef(line) THEN "f" ELSE Stmt(line)[1]
NodeType(line) == IF IsAsyncDef(line) THEN "AsyncFunctionDef" ELSE "FunctionDef"

RECURSIVE PopTo(_, _)
\* close the blocks indented deeper than n
PopTo(stack, n) ==
    IF Len(stack) > 1 /\ stack[Len(stack)] > n
    THEN PopTo(SubSeq(stack, 1, Len(stack) - 1), n)
    ELSE stack

RECURSIVE ParseFrom(_, _, _)
\* st: ok, the stack of open block indentations, whether a block must open,
\* and the definition nodes met so far (type, name, lineno, depth in the tree)
ParseFrom(lines, i, st) ==
    IF i > Len(lines) \/ ~st.ok THEN st
    ELSE LET line == lines[i]
             n == Indent(line)
             top == st.stack[Len(st.stack)]
         IN  IF IsBlank(line) THEN ParseFrom(lines, i + 1, st)
             ELSE IF ~(IsSimple(line) \/ IsDef(line))
                  THEN [st EXCEPT !.ok = FALSE]
             ELSE LET stack2 == IF st.expectBody
                                THEN Append(st.stack, n)
                                ELSE PopTo(st.stack, n)
                      good == IF st.expectBody
                              THEN n > top
                              ELSE stack2[Len(stack2)] = n
                      node == [type |-> NodeType(line), name |-> DefName(line),
                               lineno |-> i, depth |-> Len(stack2)]
                  IN  IF ~good THEN [st EXCEPT !.ok = FALSE]
                      ELSE ParseFrom(lines, i + 1,
                             [ok |-> TRUE,
                              stack |-> stack2,
                              expectBody |-> IsDef(line),
                              defs |-> IF IsDef(line)
                                       THEN Append(st.defs, node)
                                       ELSE st.defs])

\* ast.parse(code): ok is FALSE when a SyntaxError is raised; defs are the
\* FunctionDef and AsyncFunctionDef nodes in document order
Parse(code) ==
    LET st == ParseFrom(SplitLines(UniversalNewlines(code)), 1,
                 [ok |-> TRUE, stack |-> <<0>>, expectBody |-> FALSE,
                  defs |-> <<>>])
    IN  [ok |-> st.ok /\ ~st.expectBody, defs |-> st.defs]

\* node.end_lineno: the line of the last statement of the body
EndLineno(code, lineno) ==
    LET lines == SplitLines(code)
        n == Indent(lines[lineno])
        inBody == {j \in (lineno + 1)..Len(lines) :
                      /\ ~IsBlank(lines[j])
                      /\ \A k \in (lineno + 1)..j :
                            ~IsBlank(lines[k]) => Indent(lines[k]) > n}
    IN  IF inBody = {} THEN lineno
        ELSE CHOOSE j \in inBody : \A k \in inBody : k <= j

(***************************************************************************)
(* Paths (os.path on a POSIX build) and the file system.                   *)
(***************************************************************************)

SEP == "/"

\* the positions of the separator in a path
SepPositions(p) == {i \in 1..Len(p) : p[i] = SEP}

LastSep(p) ==
    IF SepPositions(p) = {} THEN 0
    ELSE CHOOSE i \in SepPositions(p) : \A j \in SepPositions(p) : j <= i

\* os.path.basename
Basename(p) == SubSeq(p, LastSep(p) + 1, Len(p))

RECURSIVE RStripSep(_)
RStripSep(p) ==
    IF Len(p) > 0 /\ p[Len(p)] = SEP THEN RStripSep(SubSeq(p, 1, Len(p) - 1)) ELSE p

\* os.path.dirname
Dirname(p) ==
    LET head == SubSeq(p, 1, LastSep(p))
    IN  IF RStripSep(head) = <<>> THEN head ELSE RStripSep(head)

\* os.path.join(a, b)
Join(a, b) ==
    IF Len(b) > 0 /\ b[1] = SEP THEN b
    ELSE IF a = <<>> \/ a[Len(a)] = SEP THEN a \o b
    ELSE a \o <<SEP>> \o b

RECURSIVE Sanitize(_)
\* rel_path.replace(":", "").replace("\\", "_")
Sanitize(p) ==
    IF p = <<>> THEN <<>>
    ELSE IF p[1] = ":" THEN Sanitize(Tail(p))
    ELSE IF p[1] = "\\" THEN <<"_">> \o Sanitize(Tail(p))
    ELSE <<p[1]>> \o Sanitize(Tail(p))

\* the editor's backup_dir
BackupDir == <<"b">>

PyExt == <<".", "p", "y">>
BakExt == <<".", "b", "a", "k">>

\* the files the editor is asked to edit
PathA == <<"a", ".", "p", "y">>
PathM == <<"m", ".", "p", "y">>
Targets == {PathA, PathM}

\* a file that is not Python source
PathTxt == <<"n", ".", "t">>

\* the files apply_edit is asked to write
EditTargets == Targets \cup {PathTxt}

\* the files create_backup is asked to copy: the targets, and a file named
\* by an absolute path
PathAbs == <<SEP, "a", ".", "p", "y">>
BackupSources == Targets \cup {PathAbs}

\* the last second of the run; one backup name per second
MaxClock == 1

Digits == <<"0", "1", "2", "3", "4", "5", "6", "7", "8", "9">>

\* datetime.now().strftime("%Y%m%d_%H%M%S"): one text per second
Timestamp(clock) == <<Digits[clock + 1]>>

\* the stored path create_backup computes for file_path at a given second
BackupPathFor(file_path, clock) ==
    LET file_name == Basename(file_path)
        backup_name == file_name \o <<".">> \o Timestamp(clock) \o BakExt
        rel_path == Dirname(file_path)
        backup_subdir == Join(BackupDir, Sanitize(rel_path))
    IN  Join(backup_subdir, backup_name)

\* no path: None
NoPath == <<>>

\* how a file operation of the operating system can end
IoOutcomes == {"ok", "open_fail", "io_fail"}

\* the number of calls in one run that meet a failing file operation
MaxFaults == 1

FaultCost(outcome) == IF outcome = "ok" THEN 0 ELSE 1

File(content, mtime) == [content |-> content, mtime |-> mtime]

\* fs with path holding file
Put(fs, path, file) ==
    [q \in (DOMAIN fs) \cup {path} |-> IF q = path THEN file ELSE fs[q]]

CopyFileNoOverwrite(fs, clock, src, dst, outcome) ==
    IF src = dst THEN [fs |-> fs, exc |-> "SameFileError"]
    ELSE IF outcome = "open_fail" THEN [fs |-> fs, exc |-> "OSError"]
    ELSE IF outcome = "io_fail"
         THEN [fs |-> Put(fs, dst, File(<<>>, clock)), exc |-> "OSError"]
    ELSE [fs |-> IF dst \in DOMAIN fs THEN fs ELSE Put(fs, dst, fs[src]),
          exc |-> "None"]

\* shutil.copy2(src, dst): content and modification time are copied; a
\* failure while copying leaves dst truncated
CopyFile(fs, clock, src, dst, outcome) ==
    IF src = dst THEN [fs |-> fs, exc |-> "SameFileError"]
    ELSE IF outcome = "open_fail" THEN [fs |-> fs, exc |-> "OSError"]
    ELSE IF outcome = "io_fail"
         THEN [fs |-> Put(fs, dst, File(<<>>, clock)), exc |-> "OSError"]
    ELSE [fs |-> Put(fs, dst, fs[src]), exc |-> "None"]

\* the longest prefix a failing write is made to leave behind
MaxTorn == 1

\* what a write of text that failed after k characters leaves in the file:
\* a proper prefix of text
Torn(text, k) ==
    SubSeq(text, 1, IF k < Len(text) THEN k ELSE Len(text) - 1)

WriteFileAppend(fs, clock, path, text, outcome, k) ==
    IF outcome = "open_fail" THEN [fs |-> fs, exc |-> "OSError"]
    ELSE IF outcome = "io_fail"
         THEN [fs |-> Put(fs, path, File(Torn(text, k), clock)),
               exc |-> "OSError"]
    ELSE [fs |-> Put(fs, path,
                     File((IF path \in DOMAIN fs THEN fs[path].content ELSE <<>>)
                          \o text, clock)),
          exc |-> "None"]

\* with open(path, 'w') as f: f.write(text); open truncates the file, a
\* failing write leaves the first k characters of text
WriteFile(fs, clock, path, text, outcome, k) ==
    IF outcome = "open_fail" THEN [fs |-> fs, exc |-> "OSError"]
    ELSE IF outcome = "io_fail"
         THEN [fs |-> Put(fs, path, File(Torn(text, k), clock)),
               exc |-> "OSError"]
    ELSE [fs |-> Put(fs, path, File(text, clock)), exc |-> "None"]

CreateBackupNoCopy(fs, clock, file_path, outcome) ==
    IF file_path \notin DOMAIN fs
    THEN [fs |-> fs, ret |-> NoPath, exc |-> "FileNotFoundError"]
    ELSE [fs |-> fs, ret |-> BackupPathFor(file_path, clock), exc |-> "None"]

CreateBackupQuiet(fs, clock, file_path, outcome) ==
    IF file_path \notin DOMAIN fs
    THEN [fs |-> fs, ret |-> NoPath, exc |-> "None"]
    ELSE LET backup_path == BackupPathFor(file_path, clock)
             cp == CopyFile(fs, clock, file_path, backup_path, outcome)
         IN  [fs |-> cp.fs,
              ret |-> IF cp.exc = "None" THEN backup_path ELSE NoPath,
              exc |-> "None"]

\* CodeEditor.create_backup
CreateBackup(fs, clock, file_path, outcome) ==
    IF file_path \notin DOMAIN fs
    THEN [fs |-> fs, ret |-> NoPath, exc |-> "FileNotFoundError"]
    ELSE LET backup_path == BackupPathFor(file_path, clock)
             cp == CopyFile(fs, clock, file_path, backup_path, outcome)
         IN  [fs |-> cp.fs,
              ret |-> IF cp.exc = "None" THEN backup_path ELSE NoPath,
              exc |-> cp.exc]

\* CodeEditor.validate_python_syntax
ValidatePythonSyntax(code) ==
    LET ok == Parse(code).ok
    IN  [valid |-> ok, error |-> IF ok THEN "None" ELSE "invalid syntax"]

(***************************************************************************)
(* CodeEditor: the four edit operations and restore.                       *)
(*                                                                         *)
(* A result is the dictionary the operation returns.  backup_path NoPath   *)
(* and error / validation "None" stand for None; restored and changes_made *)
(* are FALSE when the key is absent (the code only ever stores True in     *)
(* restored).  exc is the exception that leaves the operation, "None"      *)
(* when it returns.                                                        *)
(***************************************************************************)

Exceptions ==
    {"FileNotFoundError", "OSError", "SameFileError", "SyntaxError",
     "UnicodeDecodeError"}

CaughtOnlySyntaxError(exc) == exc = "SyntaxError"

\* except Exception as e
Caught(exc) == exc \in Exceptions

EmptyResult ==
    [success |-> FALSE, backup_path |-> NoPath, error |-> "None",
     validation |-> "None", restored |-> FALSE, changes_made |-> FALSE]

\* which steps of apply_edit ran, and how they ended
NoTrace ==
    [backup |-> "skipped", validation |-> "skipped", write |-> "not_reached",
     restore |-> "not_attempted"]

\* 1 when a file operation of the call failed (a restore fails only after
\* a write did)
FaultsIn(trace) ==
    IF trace.backup = "io_raised" \/ trace.write = "raised" THEN 1 ELSE 0

GateOff(file_path, validate) == FALSE

GateIgnoresExtension(file_path, validate) == validate

\* if validate and file_path.endswith('.py')
ValidationGate(file_path, validate) == validate /\ EndsWith(file_path, PyExt)

RestoredAlways(exc) == TRUE

\* result['restored'] = True is reached only when the copy did not raise
RestoredFlag(exc) == exc = "None"

ExceptNoError(result, exc) ==
    IF Caught(exc) THEN [result |-> result, exc |-> "None"]
    ELSE [result |-> result, exc |-> exc]

\* the except clause of an operation: the result it returns for exc
Except(result, exc) ==
    IF Caught(exc) THEN [result |-> [result EXCEPT !.error = exc], exc |-> "None"]
    ELSE [result |-> result, exc |-> exc]

TakeBackupIfValid(fs, clock, file_path, new_content, validate, create_backup, outcome) ==
    IF create_backup /\ ~(ValidationGate(file_path, validate)
                            /\ ~ValidatePythonSyntax(new_content).valid)
    THEN CreateBackup(fs, clock, file_path, outcome)
    ELSE [fs |-> fs, ret |-> NoPath, exc |-> "None"]

\* the first step of apply_edit: if create_backup, the backup is taken,
\* whatever new_content and validate are
TakeBackup(fs, clock, file_path, new_content, validate, create_backup, outcome) ==
    IF create_backup
    THEN CreateBackup(fs, clock, file_path, outcome)
    ELSE [fs |-> fs, ret |-> NoPath, exc |-> "None"]

\* CodeEditor.apply_edit; io holds the outcomes of its file operations
ApplyEdit(fs, clock, file_path, new_content, validate, create_backup, io) ==
    LET bk == TakeBackup(fs, clock, file_path, new_content, validate,
                         create_backup, io.backup)
        r1 == [EmptyResult EXCEPT !.backup_path = bk.ret]
        t1 == [NoTrace EXCEPT !.backup =
                  IF ~create_backup THEN "skipped"
                  ELSE IF bk.exc = "None" THEN "ok"
                  ELSE IF bk.exc = "FileNotFoundError" THEN "raised"
                  ELSE "io_raised"]
        gate == ValidationGate(file_path, validate)
        validation == ValidatePythonSyntax(new_content)
        r2 == IF gate
              THEN [r1 EXCEPT !.validation =
                       IF validation.valid THEN "valid" ELSE "invalid"]
              ELSE r1
        t2 == [t1 EXCEPT !.validation =
                  IF ~gate THEN "skipped"
                  ELSE IF validation.valid THEN "valid" ELSE "invalid"]
        wr == WriteFile(bk.fs, clock, file_path, new_content, io.write, io.torn)
        t3 == [t2 EXCEPT !.write = IF wr.exc = "None" THEN "ok" ELSE "raised"]
        canRestore == bk.ret # NoPath /\ bk.ret \in DOMAIN wr.fs
        rs == CopyFile(wr.fs, clock, bk.ret, file_path, io.restore)
        ex == Except(r2, wr.exc)
    IN  IF bk.exc # "None"
        THEN [fs |-> bk.fs, trace |-> t1] @@ Except(r1, bk.exc)
        ELSE IF gate /\ ~validation.valid
        THEN [fs |-> bk.fs, trace |-> t2, exc |-> "None",
              result |-> [r2 EXCEPT !.error = "Syntax validation failed"]]
        ELSE IF wr.exc = "None"
        THEN [fs |-> wr.fs, trace |-> t3, exc |-> "None",
              result |-> [r2 EXCEPT !.success = TRUE]]
        ELSE IF ex.exc # "None" \/ ~canRestore
        THEN [fs |-> wr.fs, trace |-> t3] @@ ex
        ELSE [fs |-> rs.fs,
              trace |-> [t3 EXCEPT !.restore =
                            IF rs.exc = "None" THEN "ok" ELSE "raised"],
              exc |-> "None",
              result |-> [ex.result EXCEPT !.restored = RestoredFlag(rs.exc)]]

StoppedAfterBackup(fs, result, exc) ==
    [fs |-> CreateBackup(fs, 0, PathA, "ok").fs, trace |-> NoTrace,
     applied |-> FALSE, new_content |-> <<>>]
    @@ (IF exc = "None"
        THEN [result |-> [result EXCEPT !.backup_path =
                             CreateBackup(fs, 0, PathA, "ok").ret],
              exc |-> "None"]
        ELSE Except(result, exc))

\* an operation that stopped before it reached apply_edit
Stopped(fs, result, exc) ==
    [fs |-> fs, trace |-> NoTrace, applied |-> FALSE, new_content |-> <<>>]
    @@ (IF exc = "None" THEN [result |-> result, exc |-> "None"]
        ELSE Except(result, exc))

\* result.update(edit_result) after the call of apply_edit
Applied(edit, new_content, changes_made) ==
    [fs |-> edit.fs, trace |-> edit.trace, applied |-> TRUE,
     new_content |-> new_content, exc |-> edit.exc,
     result |-> [edit.result EXCEPT !.changes_made = changes_made]]

\* CodeEditor.apply_partial_edit
ApplyPartialEdit(fs, clock, file_path, old_code, new_code, validate, create_backup, io) ==
    IF file_path \notin DOMAIN fs
    THEN Stopped(fs, EmptyResult, "FileNotFoundError")
    ELSE IF ReadText(fs[file_path].content).exc # "None"
    THEN Stopped(fs, EmptyResult, ReadText(fs[file_path].content).exc)
    ELSE LET current_content == ReadText(fs[file_path].content).text
             new_content == ReplaceFirst(current_content, old_code, new_code)
         IN  IF ~Contains(current_content, old_code)
             THEN Stopped(fs, [EmptyResult EXCEPT
                                  !.error = "Old code not found in file"], "None")
             ELSE IF new_content = current_content
             THEN Stopped(fs, [EmptyResult EXCEPT
                                  !.error = "No changes were made"], "None")
             ELSE Applied(ApplyEdit(fs, clock, file_path, new_content,
                                    validate, create_backup, io),
                          new_content, TRUE)

LineAboveRangeAccepted(line_number, lines) ==
    line_number < 1 \/ line_number > Len(lines) + 1

\* if line_number < 1 or line_number > len(lines)
InvalidLineNumber(line_number, lines) ==
    line_number < 1 \/ line_number > Len(lines)

\* CodeEditor.apply_line_edit
ApplyLineEdit(fs, clock, file_path, line_number, new_line, validate, create_backup, io) ==
    IF file_path \notin DOMAIN fs
    THEN Stopped(fs, EmptyResult, "FileNotFoundError")
    ELSE IF ReadText(fs[file_path].content).exc # "None"
    THEN Stopped(fs, EmptyResult, ReadText(fs[file_path].content).exc)
    ELSE LET lines == ReadLines(ReadText(fs[file_path].content).text)
             line == IF EndsWith(new_line, <<NL>>) THEN new_line
                     ELSE new_line \o <<NL>>
             new_content == Concat([lines EXCEPT ![line_number] = line])
         IN  IF InvalidLineNumber(line_number, lines)
             THEN Stopped(fs, [EmptyResult EXCEPT
                                  !.error = "Invalid line number"], "None")
             ELSE Applied(ApplyEdit(fs, clock, file_path, new_content,
                                    validate, create_backup, io),
                          new_content, FALSE)

DocumentBefore(a, b) == a.lineno < b.lineno

\* the order in which ast.walk yields two nodes: breadth first, so a node
\* nearer the root comes first, and nodes of one depth in document order
WalkBefore(a, b) ==
    \/ a.depth < b.depth
    \/ a.depth = b.depth /\ a.lineno < b.lineno

\* the indexes of the nodes that pass
\* isinstance(node, ast.FunctionDef) and node.name == function_name
Matches(defs, function_name) ==
    {i \in 1..Len(defs) :
        defs[i].type = "FunctionDef" /\ defs[i].name = function_name}

\* for node in ast.walk(tree): ... break -- the first match of the walk
FirstMatch(defs, function_name) ==
    CHOOSE i \in Matches(defs, function_name) :
        \A j \in Matches(defs, function_name) \ {i} : WalkBefore(defs[i], defs[j])

\* lines[:start_line - 1] + [new_function_code] + lines[end_line:]
Splice(lines, start_line, end_line, new_function_code) ==
    SubSeq(lines, 1, start_line - 1) \o <<new_function_code>>
    \o SubSeq(lines, end_line + 1, Len(lines))

\* CodeEditor.apply_function_edit
ApplyFunctionEdit(fs, clock, file_path, function_name, new_function_code, validate, create_backup, io) ==
    IF file_path \notin DOMAIN fs
    THEN Stopped(fs, EmptyResult, "FileNotFoundError")
    ELSE IF ReadText(fs[file_path].content).exc # "None"
    THEN Stopped(fs, EmptyResult, ReadText(fs[file_path].content).exc)
    ELSE LET content == ReadText(fs[file_path].content).text
             tree == Parse(content)
             function_node == tree.defs[FirstMatch(tree.defs, function_name)]
             start_line == function_node.lineno
             end_line == EndLineno(content, start_line)
             new_content == JoinLines(Splice(SplitLines(content), start_line,
                                             end_line, new_function_code))
         IN  IF ~tree.ok
             THEN Stopped(fs, EmptyResult, "SyntaxError")
             ELSE IF Matches(tree.defs, function_name) = {}
             THEN Stopped(fs, [EmptyResult EXCEPT
                                  !.error = "Function not found in file"], "None")
             ELSE Applied(ApplyEdit(fs, clock, file_path, new_content,
                                    validate, create_backup, io),
                          new_content, FALSE)

\* CodeEditor.restore_from_backup
RestoreFromBackup(fs, clock, file_path, backup_path, outcome) ==
    LET cp == CopyFile(fs, clock, backup_path, file_path, outcome)
    IN  IF backup_path \notin DOMAIN fs
        THEN [fs |-> fs, ret |-> FALSE, exc |-> "None"]
        ELSE IF cp.exc = "None"
        THEN [fs |-> cp.fs, ret |-> TRUE, exc |-> "None"]
        ELSE [fs |-> cp.fs, ret |-> FALSE,
              exc |-> IF Caught(cp.exc) THEN "None" ELSE cp.exc]

\* what compare_with_backup returns; error "None" when the key is absent
NoComparison ==
    [identical |-> FALSE, current_lines |-> 0, backup_lines |-> 0,
     size_difference |-> 0, error |-> "None"]

\* CodeEditor.compare_with_backup
CompareWithBackup(fs, file_path, backup_path) ==
    IF file_path \notin DOMAIN fs \/ backup_path \notin DOMAIN fs
    THEN [NoComparison EXCEPT !.error = "FileNotFoundError"]
    ELSE LET current == ReadText(fs[file_path].content)
             backup == ReadText(fs[backup_path].content)
         IN  IF current.exc # "None"
             THEN [NoComparison EXCEPT !.error = current.exc]
             ELSE IF backup.exc # "None"
             THEN [NoComparison EXCEPT !.error = backup.exc]
             ELSE [identical |-> current.text = backup.text,
                   current_lines |-> Len(SplitLines(current.text)),
                   backup_lines |-> Len(SplitLines(backup.text)),
                   size_difference |-> Len(current.text) - Len(backup.text),
                   error |-> "None"]

\* the names os.listdir(dir) returns: the files directly in dir
ListDir(fs, dir) ==
    LET prefix == Join(dir, <<>>)
        inside == {q \in DOMAIN fs : StartsWith(q, prefix)}
        names == {SubSeq(q, Len(prefix) + 1, Len(q)) : q \in inside}
    IN  {n \in names : n # <<>> /\ SepPositions(n) = {}}

\* the orders in which os.listdir can return a set of names: any
DirOrders(names) ==
    {o \in [1..Cardinality(names) -> names] :
        \A i, j \in 1..Cardinality(names) : i # j => o[i] # o[j]}

RECURSIVE KeepBackups(_, _, _, _)
\* the loop of get_backups over the listing: the names that start with
\* file_name and end with .bak, with modification time and size
KeepBackups(fs, backup_subdir, file_name, listing) ==
    IF listing = <<>> THEN <<>>
    ELSE LET backup_file == Head(listing)
             backup_path == Join(backup_subdir, backup_file)
             rest == KeepBackups(fs, backup_subdir, file_name, Tail(listing))
         IN  IF StartsWith(backup_file, file_name) /\ EndsWith(backup_file, BakExt)
             THEN <<[path |-> backup_path,
                     timestamp |-> fs[backup_path].mtime,
                     size |-> Len(fs[backup_path].content)]>> \o rest
             ELSE rest

\* x goes behind every element that is not older than it
InsertNewestFirst(sorted, x) ==
    LET older == {i \in 1..Len(sorted) : sorted[i].timestamp < x.timestamp}
        at == IF older = {} THEN Len(sorted) + 1
              ELSE CHOOSE i \in older : \A j \in older : i <= j
    IN  SubSeq(sorted, 1, at - 1) \o <<x>> \o SubSeq(sorted, at, Len(sorted))

RECURSIVE SortNewestFirst(_)
\* backups.sort(key=lambda x: x['timestamp'], reverse=True): stable, equal
\* timestamps keep the order of the listing
SortNewestFirst(backups) ==
    IF Len(backups) = 0 THEN <<>>
    ELSE InsertNewestFirst(SortNewestFirst(SubSeq(backups, 1, Len(backups) - 1)),
                           backups[Len(backups)])

\* CodeEditor.get_backups; order is the order in which os.listdir returns
\* the names of the backup directory
GetBackups(fs, file_path, order) ==
    LET file_name == Basename(file_path)
        rel_path == Dirname(file_path)
        backup_subdir == Join(BackupDir, Sanitize(rel_path))
    IN  SortNewestFirst(KeepBackups(fs, backup_subdir, file_name, order))

\* the backup directory get_backups lists for file_path
BackupSubdir(file_path) == Join(BackupDir, Sanitize(Dirname(file_path)))

(***************************************************************************)
(* IssueDetector.get_issue_priority.  An issue is the dictionary an        *)
(* analyzer emits; has_line is FALSE when it has no 'line' key (the        *)
(* synthetic issues of a failed analyzer).                                 *)
(***************************************************************************)

\* x.get('line', 0)
LineOf(x) == IF x.has_line THEN x.line ELSE 0

PylintPrioritySwapped(pylint_issue) ==
    IF pylint_issue.severity = "error" THEN 2 ELSE 3

PylintPriorityNotWarning(pylint_issue) ==
    IF pylint_issue.severity # "warning" THEN 3 ELSE 2

\* 3 if pylint_issue.get('severity') == 'error' else 2
PylintPriority(pylint_issue) == IF pylint_issue.severity = "error" THEN 3 ELSE 2

\* {**issue, 'priority': priority}
WithPriority(issue, priority) ==
    [type |-> issue.type, severity |-> issue.severity, line |-> issue.line,
     has_line |-> issue.has_line, priority |-> priority]

StylePrioritized(x) == WithPriority(x, PylintPriority(x))
ComplexityPrioritized(x) == WithPriority(x, 2)
MaintainabilityPrioritized(x) == WithPriority(x, 1)

CollectStyleAndComplexity(d) ==
    [i \in 1..Len(d.pylint_issues) |-> StylePrioritized(d.pylint_issues[i])]
    \o [i \in 1..Len(d.complexity_issues) |->
           ComplexityPrioritized(d.complexity_issues[i])]

\* all_issues before the sort: the three families in turn
Collect(d) ==
    [i \in 1..Len(d.pylint_issues) |-> StylePrioritized(d.pylint_issues[i])]
    \o [i \in 1..Len(d.complexity_issues) |->
           ComplexityPrioritized(d.complexity_issues[i])]
    \o [i \in 1..Len(d.maintainability_issues) |->
           MaintainabilityPrioritized(d.maintainability_issues[i])]

\* key=lambda x: (-x['priority'], x.get('line', 0)): a sorts before b
KeyBefore(a, b) ==
    \/ a.priority > b.priority
    \/ a.priority = b.priority /\ LineOf(a) < LineOf(b)

InsertBeforeEqual(sorted, x) ==
    LET later == {i \in 1..Len(sorted) : ~KeyBefore(sorted[i], x)}
        at == IF later = {} THEN Len(sorted) + 1
              ELSE CHOOSE i \in later : \A j \in later : i <= j
    IN  SubSeq(sorted, 1, at - 1) \o <<x>> \o SubSeq(sorted, at, Len(sorted))

\* x goes behind every element that does not sort after it
Insert(sorted, x) ==
    LET later == {i \in 1..Len(sorted) : KeyBefore(x, sorted[i])}
        at == IF later = {} THEN Len(sorted) + 1
              ELSE CHOOSE i \in later : \A j \in later : i <= j
    IN  SubSeq(sorted, 1, at - 1) \o <<x>> \o SubSeq(sorted, at, Len(sorted))

RECURSIVE StableSort(_)
\* list.sort(key=...): a stable sort
StableSort(seq) ==
    IF Len(seq) = 0 THEN <<>>
    ELSE Insert(StableSort(SubSeq(seq, 1, Len(seq) - 1)), seq[Len(seq)])

\* IssueDetector.get_issue_priority
GetIssuePriority(d) == StableSort(Collect(d))

(***************************************************************************)
(* The state: the file system, the clock, the faults injected so far and   *)
(* the last call of the editor with what it returned.                      *)
(***************************************************************************)

VARIABLES
    fs,         \* the files: path -> [content, mtime]
    clock,      \* the current second
    faults,     \* calls that met a failing file operation
    calls,      \* calls of the editor made so far
    last,       \* the last call of the editor and what it returned
    issues,     \* the dictionary handed to get_issue_priority
    ranked,     \* the list get_issue_priority returned
    rank_done,  \* whether get_issue_priority has returned
    pc,         \* concurrent callers: the step each one is at
    req,        \* concurrent callers: the arguments of each one's apply_edit
    log,        \* concurrent callers: the backups and writes, in order
    scan,       \* the last analyze_file call and what it returned
    run         \* the fix_repository run: its inputs, position and records

editorVars == <<fs, clock, faults, calls, last>>
rankVars == <<issues, ranked, rank_done>>
concVars == <<pc, req, log>>
flowVars == <<scan, run>>
vars == <<fs, clock, faults, calls, last, issues, ranked, rank_done, pc, req, log, scan, run>>

\* the number of calls of the editor in one run
MaxCalls == 1

\* the contents a caller hands to apply_edit
ContentP == <<"p", NL>>
ContentF == <<"f", NL, SP, "p", NL>>
ContentNoBody == <<"f", NL>>
ContentTwoF == <<"g", NL, SP, "f", NL, SP, SP, "p", NL, "f", NL, SP, "p">>
NewContents == {ContentP, ContentNoBody, ContentTwoF}

OldCodes == {<<"p">>, <<"z">>}
NewCodes == {<<"p">>, <<"q">>, <<"(">>, <<"p", CR, "q">>}
LineNumbers == {-1, 0, 2, 3}
NewLines == {<<"q">>, <<SP, "q", NL>>, <<"q", NL, NL>>}
FunctionNames == {"f", "h"}
NewFunctions == {<<"f", NL, SP, "q">>, <<SP, "f", NL, SP, SP, "q">>}

\* the longest content an edit is asked to produce
MaxContentLen == 13

\* the ways the file operations of one apply_edit call can end: the backup
\* copy fails, or the write fails and then the restore copy ends in any way
IoChoices ==
    {io \in [backup : IoOutcomes, write : IoOutcomes, torn : 0..MaxTorn,
             restore : IoOutcomes] :
        /\ io.backup # "ok" => io.write = "ok"
        /\ io.write = "ok" => io.restore = "ok"
        /\ io.write # "io_fail" => io.torn = 0}

\* the outcomes that can matter to a call: without a backup there is no
\* backup copy and no restore copy
IoFor(create_backup) ==
    {io \in IoChoices :
        ~create_backup => io.backup = "ok" /\ io.restore = "ok"}

\* the outcomes explored for the three operations that end in apply_edit:
\* a failing copy or write, with the restore left to succeed
DelegatedIoFor(create_backup) ==
    {io \in IoFor(create_backup) : io.torn = 0 /\ io.restore = "ok"}

EditOps ==
    {"apply_edit", "apply_partial_edit", "apply_line_edit", "apply_function_edit"}

NoCall ==
    [op |-> "none", file_path |-> NoPath, pre_exists |-> FALSE,
     pre_content |-> <<>>, validate |-> FALSE, create_backup |-> FALSE,
     applied |-> FALSE, new_content |-> <<>>, old_code |-> <<>>,
     new_code |-> <<>>, line_number |-> 0, function_name |-> "",
     backup_arg |-> NoPath, result |-> EmptyResult, trace |-> NoTrace,
     exc |-> "None", ret |-> FALSE, comparison |-> NoComparison,
     listing |-> <<>>,
     prev |-> [op |-> "none", file_path |-> NoPath, backup_path |-> NoPath]]

\* the record of a call of an edit operation on file_path that ended as r
EditCall(op, file_path, validate, create_backup, r) ==
    [NoCall EXCEPT !.op = op, !.file_path = file_path,
                   !.pre_exists = file_path \in DOMAIN fs,
                   !.pre_content = IF file_path \in DOMAIN fs
                                   THEN fs[file_path].content ELSE <<>>,
                   !.validate = validate, !.create_backup = create_backup,
                   !.applied = r.applied, !.new_content = r.new_content,
                   !.result = r.result, !.trace = r.trace, !.exc = r.exc]

\* the effect of an edit operation that ended as r
Finish(r, call) ==
    /\ Len(r.new_content) <= MaxContentLen
    /\ faults + FaultsIn(r.trace) <= MaxFaults
    /\ calls' = calls + 1
    /\ fs' = r.fs
    /\ faults' = faults + FaultsIn(r.trace)
    /\ last' = call
    /\ UNCHANGED <<clock, rankVars, concVars, flowVars>>

\* the callers of SpecConc
Procs == {1, 2}

NoIssues ==
    [pylint_issues |-> <<>>, complexity_issues |-> <<>>,
     maintainability_issues |-> <<>>]

RankIdle == issues = NoIssues /\ ranked = <<>> /\ rank_done = FALSE

NoRequest == [new_content |-> <<>>, validate |-> FALSE, create_backup |-> FALSE]

ConcIdle ==
    /\ pc = [p \in Procs |-> "idle"]
    /\ req = [p \in Procs |-> NoRequest]
    /\ log = <<>>

\* no analyze_file call yet
NoScan ==
    [done |-> FALSE, file_path |-> NoPath, found |-> <<>>, outcome |-> <<>>,
     result |-> <<>>, exc |-> "None"]

\* a count that is absent from a report
NoCount == 0 - 1

\* no fix_repository run yet
NoRun ==
    [phase |-> "idle", dry_run |-> FALSE, is_git |-> FALSE, fs0 |-> <<>>,
     analysis |-> <<>>, f |-> 0, i |-> 0, handled |-> <<>>, applied |-> <<>>,
     failed |-> <<>>, commits |-> <<>>, trouble |-> 0,
     report |-> [fixes_applied |-> NoCount, fixes_failed |-> NoCount,
                 success |-> FALSE]]

FlowIdle == scan = NoScan /\ run = NoRun

\* a file with a syntax error in it
ContentBroken == <<"(", NL>>

\* a file with Windows line ends
ContentCrLf == <<"f", CR, NL, SP, "p", CR, NL, "q", CR, NL>>

\* a file whose only definition named f is asynchronous
ContentAsync == <<"F", NL, SP, "p", NL>>

\* a file that is not UTF-8 text
ContentNonUtf8 == <<NonUtf8, NL>>

\* the file systems a run starts from: a fresh file; a file that was edited
\* earlier in this second, with the backup of that edit; a file that does not
\* parse; a file with Windows line ends; a file with an asynchronous
\* definition; a file that is not UTF-8; a file named by an absolute path;
\* a file that is not Python source
InitialFileSystems ==
    {[q \in {PathA} |-> File(ContentF, 0)],
     [q \in {PathA, BackupPathFor(PathA, 0)} |->
         IF q = PathA THEN File(ContentTwoF, 0) ELSE File(ContentF, 0)],
     [q \in {PathA} |-> File(ContentBroken, 0)],
     [q \in {PathA} |-> File(ContentCrLf, 0)],
     [q \in {PathM} |-> File(ContentAsync, 0)],
     [q \in {PathM} |-> File(ContentNonUtf8, 0)],
     [q \in {PathAbs} |-> File(ContentP, 0)],
     [q \in {PathTxt} |-> File(ContentBroken, 0)]}

Init ==
    /\ fs \in InitialFileSystems
    /\ clock = 0
    /\ faults = 0
    /\ calls = 0
    /\ last = NoCall
    /\ RankIdle
    /\ ConcIdle
    /\ FlowIdle

\* a second passes
Tick ==
    /\ clock < MaxClock
    /\ clock' = clock + 1
    /\ UNCHANGED <<fs, faults, calls, last, rankVars, concVars, flowVars>>

DoApplyEdit ==
    /\ calls < MaxCalls
    /\ \E file_path \in EditTargets, new_content \in NewContents,
          validate \in BOOLEAN, create_backup \in BOOLEAN :
         \E io \in IoFor(create_backup) :
           \E r \in {Applied(ApplyEdit(fs, clock, file_path, new_content, validate,
                                      create_backup, io), new_content, FALSE)} :
               Finish(r, EditCall("apply_edit", file_path, validate,
                                  create_backup, r))

DoApplyPartialEdit ==
    /\ calls < MaxCalls
    /\ \E file_path \in Targets, old_code \in OldCodes, new_code \in NewCodes,
          validate \in BOOLEAN, create_backup \in BOOLEAN :
         \E io \in DelegatedIoFor(create_backup) :
           \E r \in {ApplyPartialEdit(fs, clock, file_path, old_code, new_code,
                                     validate, create_backup, io)} :
               Finish(r, [EditCall("apply_partial_edit", file_path, validate,
                                   create_backup, r)
                             EXCEPT !.old_code = old_code, !.new_code = new_code])

DoApplyLineEdit ==
    /\ calls < MaxCalls
    /\ \E file_path \in Targets, line_number \in LineNumbers,
          new_line \in NewLines,
          validate \in BOOLEAN, create_backup \in BOOLEAN :
         \E io \in DelegatedIoFor(create_backup) :
           \E r \in {ApplyLineEdit(fs, clock, file_path, line_number, new_line,
                                  validate, create_backup, io)} :
               Finish(r, [EditCall("apply_line_edit", file_path, validate,
                                   create_backup, r)
                             EXCEPT !.line_number = line_number,
                                    !.new_code = new_line])

DoApplyFunctionEdit ==
    /\ calls < MaxCalls
    /\ \E file_path \in Targets, function_name \in FunctionNames,
          new_function_code \in NewFunctions,
          validate \in BOOLEAN, create_backup \in BOOLEAN :
         \E io \in DelegatedIoFor(create_backup) :
           \E r \in {ApplyFunctionEdit(fs, clock, file_path, function_name,
                                      new_function_code, validate, create_backup, io)} :
               Finish(r, [EditCall("apply_function_edit", file_path, validate,
                                   create_backup, r)
                             EXCEPT !.function_name = function_name,
                                    !.new_code = new_function_code])

\* the stored paths a caller can name: every backup there is, and one that
\* does not exist
BackupArgs == ((DOMAIN fs) \ BackupSources) \cup {BackupPathFor(PathM, MaxClock)}

DoCreateBackup ==
    /\ calls < MaxCalls
    /\ \E file_path \in BackupSources, outcome \in IoOutcomes :
           \E r \in {CreateBackup(fs, clock, file_path, outcome)} :
               /\ faults + FaultCost(outcome) <= MaxFaults
               /\ calls' = calls + 1
               /\ fs' = r.fs
               /\ faults' = faults + (IF r.exc = "OSError" THEN 1 ELSE 0)
               /\ last' = [NoCall EXCEPT
                             !.op = "create_backup", !.file_path = file_path,
                             !.pre_exists = file_path \in DOMAIN fs,
                             !.pre_content = IF file_path \in DOMAIN fs
                                             THEN fs[file_path].content ELSE <<>>,
                             !.result = [EmptyResult EXCEPT !.backup_path = r.ret],
                             !.exc = r.exc]
               /\ UNCHANGED <<clock, rankVars, concVars, flowVars>>

DoRestoreFromBackup ==
    /\ calls < MaxCalls
    /\ \E file_path \in Targets, backup_path \in BackupArgs,
          outcome \in IoOutcomes :
           \E r \in {RestoreFromBackup(fs, clock, file_path, backup_path, outcome)} :
               /\ faults + FaultCost(outcome) <= MaxFaults
               /\ calls' = calls + 1
               /\ fs' = r.fs
               /\ faults' = faults + (IF backup_path \in DOMAIN fs
                                      THEN FaultCost(outcome) ELSE 0)
               /\ last' = [NoCall EXCEPT
                             !.op = "restore_from_backup", !.file_path = file_path,
                             !.pre_exists = file_path \in DOMAIN fs,
                             !.pre_content = IF file_path \in DOMAIN fs
                                             THEN fs[file_path].content ELSE <<>>,
                             !.backup_arg = backup_path,
                             !.exc = r.exc, !.ret = r.ret]
               /\ UNCHANGED <<clock, rankVars, concVars, flowVars>>

\* compare_with_backup changes no file; it is explored where it is used,
\* right after a backup was taken
DoCompareWithBackup ==
    /\ last.op = "create_backup"
    /\ \E file_path \in BackupSources,
          backup_path \in BackupArgs \cup {last.result.backup_path} :
           /\ last' = [NoCall EXCEPT
                         !.op = "compare_with_backup", !.file_path = file_path,
                         !.pre_exists = file_path \in DOMAIN fs,
                         !.pre_content = IF file_path \in DOMAIN fs
                                         THEN fs[file_path].content ELSE <<>>,
                         !.backup_arg = backup_path,
                         !.comparison = CompareWithBackup(fs, file_path, backup_path),
                         !.prev = [op |-> last.op, file_path |-> last.file_path,
                                   backup_path |-> last.result.backup_path]]
           /\ UNCHANGED <<fs, clock, faults, calls, rankVars, concVars, flowVars>>

Next ==
    \/ Tick
    \/ DoApplyEdit
    \/ DoApplyPartialEdit
    \/ DoApplyLineEdit
    \/ DoApplyFunctionEdit
    \/ DoCreateBackup
    \/ DoCompareWithBackup
    \/ DoRestoreFromBackup

Spec == Init /\ [][Next]_vars

(***************************************************************************)
(* Ranking: get_issue_priority applied to the issues of one file.          *)
(***************************************************************************)

\* the longest list of each analyzer
MaxStyle == 2
MaxComplexity == 1
MaxMaintainability == 1

Issue(type, severity, line, has_line) ==
    [type |-> type, severity |-> severity, line |-> line, has_line |-> has_line]

\* the lines issues are reported at; an issue without a line carries 0
IssueLines == {3, 5}

StyleIssues ==
    {Issue("pylint", sev, l, TRUE) : sev \in {"error", "warning", "convention"},
                                     l \in IssueLines}
    \cup {Issue("pylint", "error", 0, FALSE)}

ComplexityIssues ==
    {Issue("complexity", sev, l, TRUE) : sev \in {"warning", "error"},
                                         l \in IssueLines}
    \cup {Issue("complexity", "error", 0, FALSE)}

MaintainabilityIssues ==
    {Issue("maintainability", "warning", l, TRUE) : l \in IssueLines}
    \cup {Issue("maintainability", "error", 0, FALSE)}

\* the sequences over S of length at most n
SeqUpTo(S, n) == UNION {[1..k -> S] : k \in 0..n}

RankInit ==
    /\ issues \in [pylint_issues : SeqUpTo(StyleIssues, MaxStyle),
                   complexity_issues : SeqUpTo(ComplexityIssues, MaxComplexity),
                   maintainability_issues :
                       SeqUpTo(MaintainabilityIssues, MaxMaintainability)]
    /\ ranked = <<>>
    /\ rank_done = FALSE
    /\ fs \in {[q \in {PathA} |-> File(ContentF, 0)]}
    /\ clock = 0
    /\ faults = 0
    /\ calls = 0
    /\ last = NoCall
    /\ ConcIdle
    /\ FlowIdle

DoGetIssuePriority ==
    /\ ~rank_done
    /\ ranked' = GetIssuePriority(issues)
    /\ rank_done' = TRUE
    /\ UNCHANGED <<issues, editorVars, concVars, flowVars>>

RankNext == DoGetIssuePriority

SpecRank == RankInit /\ [][RankNext]_vars

(***************************************************************************)
(* Concurrent callers: two processes (two runs of the command line, or a   *)
(* run of it beside the server) call apply_edit on one path.  The editor   *)
(* takes no lock, so the steps of the two calls are scheduled freely; each *)
(* file operation is one step.                                             *)
(***************************************************************************)

Requests ==
    [new_content : NewContents, validate : BOOLEAN, create_backup : BOOLEAN]

ConcInit ==
    /\ fs \in {[q \in {PathA} |-> File(ContentF, 0)]}
    /\ clock = 0
    /\ faults = 0
    /\ calls = 0
    /\ last = NoCall
    /\ RankIdle
    /\ ConcIdle
    /\ FlowIdle

\* p calls apply_edit(PathA, ...)
ConcCall(p) ==
    /\ pc[p] = "idle"
    /\ \E r \in Requests : req' = [req EXCEPT ![p] = r]
    /\ pc' = [pc EXCEPT ![p] = "backup"]
    /\ UNCHANGED <<editorVars, rankVars, log, flowVars>>

\* if create_backup: result['backup_path'] = self.create_backup(file_path)
ConcBackup(p) ==
    /\ pc[p] = "backup"
    /\ IF req[p].create_backup
       THEN /\ fs' = CreateBackup(fs, clock, PathA, "ok").fs
            /\ log' = Append(log, [proc |-> p, step |-> "backup"])
       ELSE UNCHANGED <<fs, log>>
    /\ pc' = [pc EXCEPT ![p] = "validate"]
    /\ UNCHANGED <<clock, faults, calls, last, rankVars, req, flowVars>>

\* the validation gate: a rejected edit returns here
ConcValidate(p) ==
    /\ pc[p] = "validate"
    /\ pc' = [pc EXCEPT ![p] =
                 IF /\ ValidationGate(PathA, req[p].validate)
                    /\ ~ValidatePythonSyntax(req[p].new_content).valid
                 THEN "rejected" ELSE "write"]
    /\ UNCHANGED <<editorVars, rankVars, req, log, flowVars>>

\* with open(file_path, 'w') as f: f.write(new_content)
ConcWrite(p) ==
    /\ pc[p] = "write"
    /\ fs' = WriteFile(fs, clock, PathA, req[p].new_content, "ok", 0).fs
    /\ log' = Append(log, [proc |-> p, step |-> "write"])
    /\ pc' = [pc EXCEPT ![p] = "done"]
    /\ UNCHANGED <<clock, faults, calls, last, rankVars, req, flowVars>>

ConcTick ==
    /\ clock < MaxClock
    /\ clock' = clock + 1
    /\ UNCHANGED <<fs, faults, calls, last, rankVars, concVars, flowVars>>

ConcNext ==
    \/ ConcTick
    \/ \E p \in Procs : ConcCall(p)
    \/ \E p \in Procs : ConcBackup(p)
    \/ \E p \in Procs : ConcValidate(p)
    \/ \E p \in Procs : ConcWrite(p)

SpecConc == ConcInit /\ [][ConcNext]_vars

(***************************************************************************)
(* Histories of one file: sequences of edits, backups and restores over    *)
(* several seconds, and the listing of its backups (SpecHist).  log holds   *)
(* the calls made so far.  No file operation fails here.                   *)
(***************************************************************************)

\* the calls of one history, and its last second
MaxHistory == 4
MaxHistClock == 2

IoOk == [backup |-> "ok", write |-> "ok", torn |-> 0, restore |-> "ok"]

\* a history starts from a file with or without an earlier backup
HistInit ==
    /\ fs \in {f \in InitialFileSystems :
                 PathA \in DOMAIN f /\ f[PathA].content \in {ContentF, ContentTwoF}}
    /\ clock = 0
    /\ faults = 0
    /\ calls = 0
    /\ last = NoCall
    /\ RankIdle
    /\ ConcIdle
    /\ FlowIdle

\* the entry a call leaves in the history: the operation, the stored path
\* it returned or was given, the content the file had before it, and
\* whether it succeeded
HistEntry(op, backup_path, ok) ==
    [op |-> op, backup_path |-> backup_path,
     pre_content |-> fs[PathA].content, ok |-> ok]

HistCall(op, r, entry) ==
    /\ calls' = calls + 1
    /\ fs' = r.fs
    /\ last' = [NoCall EXCEPT !.op = op, !.file_path = PathA]
    /\ log' = Append(log, entry)
    /\ UNCHANGED <<clock, faults, rankVars, pc, req, flowVars>>

HistTick ==
    /\ clock < MaxHistClock
    /\ clock' = clock + 1
    /\ UNCHANGED <<fs, faults, calls, last, rankVars, concVars, flowVars>>

HistEdit ==
    /\ calls < MaxHistory
    /\ \E new_content \in {ContentP, ContentF}, create_backup \in BOOLEAN :
           \E r \in {ApplyEdit(fs, clock, PathA, new_content, TRUE,
                               create_backup, IoOk)} :
               HistCall("apply_edit", r,
                        HistEntry("apply_edit", r.result.backup_path,
                                  r.result.success))

HistBackup ==
    /\ calls < MaxHistory
    /\ \E r \in {CreateBackup(fs, clock, PathA, "ok")} :
           HistCall("create_backup", r,
                    HistEntry("create_backup", r.ret, r.exc = "None"))

HistRestore ==
    /\ calls < MaxHistory
    /\ \E backup_path \in (DOMAIN fs) \ BackupSources :
           \E r \in {RestoreFromBackup(fs, clock, PathA, backup_path, "ok")} :
               HistCall("restore_from_backup", r,
                        HistEntry("restore_from_backup", backup_path, r.ret))

\* get_backups changes no file; the directory is listed in any order
HistList ==
    /\ last.op # "get_backups"
    /\ \E order \in DirOrders(ListDir(fs, BackupSubdir(PathA))) :
           last' = [NoCall EXCEPT !.op = "get_backups", !.file_path = PathA,
                                  !.listing = GetBackups(fs, PathA, order)]
    /\ UNCHANGED <<fs, clock, faults, calls, rankVars, concVars, flowVars>>

HistNext ==
    \/ HistTick
    \/ HistEdit
    \/ HistBackup
    \/ HistRestore
    \/ HistList

SpecHist == HistInit /\ [][HistNext]_vars

(***************************************************************************)
(* IssueDetector.analyze_file and its analyzers (SpecScan).  found is what *)
(* each analyzer would report on the file; outcome is how each one ends.   *)
(***************************************************************************)

\* the issues one analyzer finds in one file
MaxFound == 1

\* the entry an except clause of an analyzer appends: severity error, no line
Synthetic(type, message) ==
    [message |-> message] @@ Issue(type, "error", 0, FALSE)

AbsorbNothing(list, type, message, exc) == [issues |-> list, exc |-> exc]

\* except Exception as e: issues.append({...}), and the list is returned
Absorb(list, type, message, exc) ==
    [issues |-> list \o <<Synthetic(type, message)>>, exc |-> "None"]

OnTimeoutAsAnyError(list) ==
    Absorb(list, "pylint", "Pylint error", "TimeoutExpired")

\* except subprocess.TimeoutExpired
OnTimeout(list) ==
    [issues |-> list \o <<Synthetic("pylint", "Pylint analysis timed out")>>,
     exc |-> "None"]

\* how the pylint subprocess and the reading of its output can end: issues
\* reported; the 30 s timeout; the process cannot be started; an item of the
\* output is not a dictionary; the output is not JSON
PylintOutcomes == {"ok", "timeout", "raise", "raise_in_loop", "bad_json"}

\* how an analyzer that runs in this process can end
AnalyzerOutcomes == {"ok", "raise"}

\* IssueDetector._run_pylint
RunPylint(found, outcome) ==
    IF outcome = "timeout" THEN OnTimeout(<<>>)
    ELSE IF outcome = "raise"
    THEN Absorb(<<>>, "pylint", "Pylint error", "Exception")
    ELSE IF outcome = "raise_in_loop"
    THEN Absorb(SubSeq(found, 1, Len(found) - 1), "pylint", "Pylint error",
                "Exception")
    ELSE IF outcome = "bad_json" THEN [issues |-> <<>>, exc |-> "None"]
    ELSE [issues |-> found, exc |-> "None"]

\* open(file_path), f.read() or the parse of the code raises
Unreadable(disk, file_path) ==
    \/ file_path \notin DOMAIN disk
    \/ ReadText(disk[file_path].content).exc # "None"
    \/ ~Parse(ReadText(disk[file_path].content).text).ok

\* IssueDetector._analyze_complexity
AnalyzeComplexity(disk, file_path, found, outcome) ==
    IF Unreadable(disk, file_path) \/ outcome = "raise"
    THEN Absorb(<<>>, "complexity", "Complexity analysis error", "Exception")
    ELSE [issues |-> found, exc |-> "None"]

\* IssueDetector._analyze_maintainability
AnalyzeMaintainability(disk, file_path, found, outcome) ==
    IF Unreadable(disk, file_path) \/ outcome = "raise"
    THEN Absorb(<<>>, "maintainability", "Maintainability analysis error",
                "Exception")
    ELSE [issues |-> found, exc |-> "None"]

\* IssueDetector._calculate_metrics: the dictionary it returns carries the
\* error
CalculateMetrics(disk, file_path, outcome) ==
    [metrics |-> IF Unreadable(disk, file_path) \/ outcome = "raise"
                 THEN "error" ELSE "computed",
     exc |-> "None"]

\* the dictionary analyze_file starts from; error "None": the key is absent
EmptyIssues(file_path) ==
    [file_path |-> file_path, pylint_issues |-> <<>>,
     complexity_issues |-> <<>>, maintainability_issues |-> <<>>,
     metrics |-> "empty", error |-> "None"]

\* IssueDetector.analyze_file: the analyzers run in turn inside one try; an
\* exception that leaves one of them skips the ones after it
AnalyzeFile(disk, file_path, found, outcome) ==
    LET py == RunPylint(found.pylint_issues, outcome.pylint)
        cx == AnalyzeComplexity(disk, file_path, found.complexity_issues,
                                outcome.complexity)
        mi == AnalyzeMaintainability(disk, file_path, found.maintainability_issues,
                                     outcome.maintainability)
        me == CalculateMetrics(disk, file_path, outcome.metrics)
        i0 == EmptyIssues(file_path)
        i1 == [i0 EXCEPT !.pylint_issues = py.issues]
        i2 == [i1 EXCEPT !.complexity_issues = cx.issues]
        i3 == [i2 EXCEPT !.maintainability_issues = mi.issues]
        i4 == [i3 EXCEPT !.metrics = me.metrics]
    IN  IF ~EndsWith(file_path, PyExt) THEN [issues |-> i0, exc |-> "None"]
        ELSE IF py.exc # "None"
        THEN [issues |-> [i0 EXCEPT !.error = py.exc], exc |-> "None"]
        ELSE IF cx.exc # "None"
        THEN [issues |-> [i1 EXCEPT !.error = cx.exc], exc |-> "None"]
        ELSE IF mi.exc # "None"
        THEN [issues |-> [i2 EXCEPT !.error = mi.exc], exc |-> "None"]
        ELSE IF me.exc # "None"
        THEN [issues |-> [i3 EXCEPT !.error = me.exc], exc |-> "None"]
        ELSE [issues |-> i4, exc |-> "None"]

\* what the analyzers can find: issues with a line, as the tools report them
FoundChoices ==
    [pylint_issues :
         SeqUpTo({Issue("pylint", sev, 3, TRUE) : sev \in {"error", "warning"}},
                 MaxFound),
     complexity_issues :
         SeqUpTo({Issue("complexity", "warning", 5, TRUE)}, MaxFound),
     maintainability_issues :
         SeqUpTo({Issue("maintainability", "warning", 3, TRUE)}, MaxFound)]

OutcomeChoices ==
    [pylint : PylintOutcomes, complexity : AnalyzerOutcomes,
     maintainability : AnalyzerOutcomes, metrics : AnalyzerOutcomes]

ScanInit ==
    /\ fs \in InitialFileSystems
    /\ clock = 0
    /\ faults = 0
    /\ calls = 0
    /\ last = NoCall
    /\ RankIdle
    /\ ConcIdle
    /\ FlowIdle

DoAnalyzeFile ==
    /\ ~scan.done
    /\ \E file_path \in Targets \cup {PathTxt}, found \in FoundChoices,
          outcome \in OutcomeChoices :
           \E r \in {AnalyzeFile(fs, file_path, found, outcome)} :
               scan' = [done |-> TRUE, file_path |-> file_path, found |-> found,
                        outcome |-> outcome, result |-> r.issues, exc |-> r.exc]
    /\ UNCHANGED <<editorVars, rankVars, concVars, run>>

ScanNext == DoAnalyzeFile

SpecScan == ScanInit /\ [][ScanNext]_vars

(***************************************************************************)
(* SelfHealingOrchestrator.fix_repository (SpecFix): the analysis, one     *)
(* step per issue of the loop, and the commit and report at the end.  The  *)
(* content generator is an input of each step: it raises, or returns a     *)
(* response whose code may be empty; so is the logger, whose calls each    *)
(* rewrite the log file and can raise.  The context lookup and the console *)
(* are taken not to fail.                                                  *)
(***************************************************************************)

\* the source files of the repository, as parse_repository names them: by
\* absolute paths
PathMAbs == <<SEP, "m", ".", "p", "y">>
RunFiles == {PathAbs, PathMAbs}

\* what the analyzers find in one file: one issue, or six
FoundOne ==
    [NoIssues EXCEPT !.pylint_issues = <<Issue("pylint", "warning", 3, TRUE)>>]

FoundSix ==
    [pylint_issues |-> <<Issue("pylint", "warning", 5, TRUE),
                         Issue("pylint", "error", 3, TRUE),
                         Issue("pylint", "convention", 3, TRUE)>>,
     complexity_issues |-> <<Issue("complexity", "warning", 5, TRUE),
                             Issue("complexity", "error", 3, TRUE)>>,
     maintainability_issues |-> <<Issue("maintainability", "warning", 3, TRUE)>>]

Loads == {NoIssues, FoundOne, FoundSix}

\* what is found in the files of one repository: at most one file with more
\* issues than a run addresses
RepositoryLoads == {found \in [RunFiles -> Loads] : found[PathMAbs] # FoundSix}

AllOk ==
    [pylint |-> "ok", complexity |-> "ok", maintainability |-> "ok",
     metrics |-> "ok"]

RECURSIVE AnalyzeFiles(_, _, _)
\* the loop of analyze_repository over the parsed files: a file is kept
\* when its prioritized list is not empty
AnalyzeFiles(disk, files, found) ==
    IF files = <<>> THEN <<>>
    ELSE LET file == Head(files)
             prioritized ==
                 GetIssuePriority(AnalyzeFile(disk, file, found[file], AllOk).issues)
             rest == AnalyzeFiles(disk, Tail(files), found)
         IN  IF prioritized # <<>>
             THEN <<[file |-> file, issues |-> prioritized]>> \o rest
             ELSE rest

RECURSIVE TotalIssues(_)
\* sum(len(f['issues']) for f in all_issues)
TotalIssues(all_issues) ==
    IF all_issues = <<>> THEN 0
    ELSE Len(Head(all_issues).issues) + TotalIssues(Tail(all_issues))

SelectedAll(list) == list

\* file_issues['issues'][:5]
Selected(list) == SubSeq(list, 1, IF Len(list) < 5 THEN Len(list) ELSE 5)

ApplyGateIgnoresDryRun(dry_run, code) == code # <<>>

ApplyGateIgnoresCode(dry_run, code) == ~dry_run

\* if not dry_run and llm_response.get('code')
ApplyGate(dry_run, code) == ~dry_run /\ code # <<>>

\* what improve_code can do: raise, or return a response whose code is
\* empty, parses, or does not parse
GeneratorResponses ==
    {[kind |-> "raise", code |-> <<>>],
     [kind |-> "returned", code |-> <<>>],
     [kind |-> "returned", code |-> ContentP],
     [kind |-> "returned", code |-> ContentBroken]}

\* the passes of one run in which something other than a fix that parses
\* and is written happens
MaxTrouble == 1

\* 0 for a response with code that parses, applied without a failing file
\* operation
TroubleCost(response, io) ==
    IF response.kind = "returned" /\ response.code = ContentP /\ io = IoOk
    THEN 0 ELSE 1

\* the file operations of apply_edit in a run: all succeed, the backup copy
\* fails, or the write fails
RunIo ==
    {IoOk, [IoOk EXCEPT !.backup = "open_fail"], [IoOk EXCEPT !.write = "open_fail"]}

\* the call of the logger that raises in one pass of the loop, "ok" when
\* none does: log_operation rewrites the log file on every call
LogOutcomes == {"ok", "log_llm_interaction", "log_code_edit", "log_fix_summary"}

\* 1 for a pass in which something other than a fix that parses, is written
\* and is logged happens
PassCost(response, io, logging) ==
    IF TroubleCost(response, io) = 1 \/ logging # "ok" THEN 1 ELSE 0

\* one pass of the loop body that did not get to apply_edit
NoEdit(disk, file_path, read, generator, code, outcome) ==
    [fs |-> disk, file |-> file_path, read |-> read,
     context |-> read = "ok", generator |-> generator, code |-> code,
     engine |-> FALSE, success |-> FALSE, applied |-> FALSE, logged |-> "ok",
     outcome |-> outcome, backup |-> NoPath,
     error |-> IF outcome = "raised" THEN "Exception" ELSE "None",
     trace |-> NoTrace]

\* the body of the loop of fix_repository for one issue of file_path; ed is
\* what apply_edit(file_path, response.code, validate=True,
\* create_backup=True) does when the pass gets to it, logging the call of
\* the logger that raises.  applied: fixes_applied.append was reached;
\* outcome "raised": the pass ended in the except clause, which appends to
\* fixes_failed
FixIssue(disk, dry_run, file_path, response, ed, logging) ==
        IF file_path \notin DOMAIN disk
           \/ ReadText(disk[file_path].content).exc # "None"
        THEN NoEdit(disk, file_path, "raised", "not_called", <<>>, "raised")
        ELSE IF response.kind = "raise"
        THEN NoEdit(disk, file_path, "ok", "raised", <<>>, "raised")
        ELSE IF logging = "log_llm_interaction"
        THEN [NoEdit(disk, file_path, "ok", "returned", response.code, "raised")
                 EXCEPT !.logged = logging]
        ELSE IF ~ApplyGate(dry_run, response.code)
        THEN NoEdit(disk, file_path, "ok", "returned", response.code, "skipped")
        ELSE [fs |-> ed.fs, file |-> file_path, read |-> "ok", context |-> TRUE,
              generator |-> "returned", code |-> response.code, engine |-> TRUE,
              success |-> ed.exc = "None" /\ ed.result.success,
              applied |-> /\ ed.exc = "None"
                          /\ logging # "log_code_edit"
                          /\ ed.result.success,
              logged |-> IF ed.exc # "None" THEN "ok"
                         ELSE IF logging = "log_code_edit" THEN logging
                         ELSE IF logging = "log_fix_summary" /\ ed.result.success
                         THEN logging
                         ELSE "ok",
              outcome |-> IF ed.exc # "None" \/ logging = "log_code_edit"
                          THEN "raised"
                          ELSE IF ed.result.success
                          THEN (IF logging = "log_fix_summary" THEN "raised"
                                ELSE "applied")
                          ELSE "rejected",
              backup |-> ed.result.backup_path,
              error |-> IF ed.exc # "None" THEN ed.exc
                        ELSE IF logging = "log_code_edit" THEN "Exception"
                        ELSE IF logging = "log_fix_summary" /\ ed.result.success
                        THEN "Exception"
                        ELSE ed.result.error,
              trace |-> ed.trace]

AdvanceStopsAtFailure(all_issues, f, i, outcome) ==
    IF outcome \in {"rejected", "raised"}
    THEN [f |-> Len(all_issues) + 1, i |-> 1]
    ELSE IF i < Len(Selected(all_issues[f].issues)) THEN [f |-> f, i |-> i + 1]
    ELSE [f |-> f + 1, i |-> 1]

\* the two for loops: the next issue of the file, else the next file,
\* however the pass for this issue ended
Advance(all_issues, f, i, outcome) ==
    IF i < Len(Selected(all_issues[f].issues)) THEN [f |-> f, i |-> i + 1]
    ELSE [f |-> f + 1, i |-> 1]

SuccessAlways(fixes_failed) == Len(fixes_failed) >= 0

\* 'success': len(fixes_failed) == 0
Success(fixes_failed) == Len(fixes_failed) = 0

\* the repositories a run starts from: two source files, the second one
\* with an asynchronous definition or not in UTF-8
RunFileSystems ==
    {[q \in RunFiles |-> IF q = PathAbs THEN File(ContentF, 0)
                         ELSE File(ContentAsync, 0)],
     [q \in RunFiles |-> IF q = PathAbs THEN File(ContentF, 0)
                         ELSE File(ContentNonUtf8, 0)]}

FixInit ==
    /\ fs \in RunFileSystems
    /\ clock = 0
    /\ faults = 0
    /\ calls = 0
    /\ last = NoCall
    /\ RankIdle
    /\ ConcIdle
    /\ FlowIdle

\* fix_repository up to its loop: the analysis of the files, which
\* parse_repository lists in any order, and the early return
DoStartFix ==
    /\ run.phase = "idle"
    /\ \E dry_run \in BOOLEAN, is_git \in BOOLEAN, found \in RepositoryLoads,
          files \in DirOrders(RunFiles \cap DOMAIN fs) :
           \E all_issues \in {AnalyzeFiles(fs, files, found)} :
               run' = [NoRun EXCEPT
                          !.phase = IF TotalIssues(all_issues) = 0
                                    THEN "done" ELSE "fixing",
                          !.dry_run = dry_run, !.is_git = is_git, !.fs0 = fs,
                          !.analysis = all_issues, !.f = 1, !.i = 1,
                          !.report = IF TotalIssues(all_issues) = 0
                                     THEN [fixes_applied |-> 0,
                                           fixes_failed |-> NoCount,
                                           success |-> TRUE]
                                     ELSE NoRun.report]
    /\ UNCHANGED <<editorVars, rankVars, concVars, scan>>

\* one pass of the loop: one selected issue of one file
DoFixIssue ==
    /\ run.phase = "fixing"
    /\ run.f <= Len(run.analysis)
    /\ \E response \in GeneratorResponses, io \in RunIo, logging \in LogOutcomes :
        /\ run.trouble + PassCost(response, io, logging) <= MaxTrouble
        /\ \E ed \in {ApplyEdit(fs, clock, run.analysis[run.f].file,
                                 response.code, TRUE, TRUE, io)} :
           \E r \in {FixIssue(fs, run.dry_run, run.analysis[run.f].file,
                              response, ed, logging)} :
               /\ ~r.engine => io = IoOk
               /\ r.logged = logging
               /\ faults + FaultsIn(r.trace) <= MaxFaults
               /\ faults' = faults + FaultsIn(r.trace)
               /\ fs' = r.fs
               /\ run' = [run EXCEPT
                     !.handled = Append(@,
                         [file |-> r.file,
                          issue |-> Selected(run.analysis[run.f].issues)[run.i],
                          read |-> r.read, context |-> r.context,
                          generator |-> r.generator, code |-> r.code,
                          engine |-> r.engine, success |-> r.success,
                          logged |-> r.logged, outcome |-> r.outcome]),
                     !.applied = IF r.applied
                                 THEN Append(@, [file |-> r.file, backup |-> r.backup])
                                 ELSE @,
                     !.failed = IF r.outcome \in {"rejected", "raised"}
                                THEN Append(@, [file |-> r.file, error |-> r.error])
                                ELSE @,
                     !.trouble = @ + PassCost(response, io, logging),
                     !.f = Advance(run.analysis, run.f, run.i, r.outcome).f,
                     !.i = Advance(run.analysis, run.f, run.i, r.outcome).i]
    /\ UNCHANGED <<clock, calls, last, rankVars, concVars, scan>>

\* fix_repository after its loop: the commit of the applied fixes and the
\* report
DoFinishFix ==
    /\ run.phase = "fixing"
    /\ run.f > Len(run.analysis)
    /\ run' = [run EXCEPT
                  !.phase = "done",
                  !.commits = IF run.is_git /\ run.applied # <<>> /\ ~run.dry_run
                              THEN Append(@, [k \in 1..Len(run.applied) |->
                                                 run.applied[k].file])
                              ELSE @,
                  !.report = [fixes_applied |-> Len(run.applied),
                              fixes_failed |-> Len(run.failed),
                              success |-> Success(run.failed)]]
    /\ UNCHANGED <<editorVars, rankVars, concVars, scan>>

FixNext ==
    \/ DoStartFix
    \/ DoFixIssue
    \/ DoFinishFix

SpecFix == FixInit /\ [][FixNext]_vars

(***************************************************************************)
(* Properties of the ranking (checked under SpecRank).                     *)
(***************************************************************************)

\* the issues of the example: style/error at line 5, complexity at line 5,
\* style/warning at line 3
ExampleIssues ==
    [pylint_issues |-> <<Issue("pylint", "error", 5, TRUE),
                         Issue("pylint", "warning", 3, TRUE)>>,
     complexity_issues |-> <<Issue("complexity", "warning", 5, TRUE)>>,
     maintainability_issues |-> <<>>]

ExampleStyleError == WithPriority(Issue("pylint", "error", 5, TRUE), 3)
ExampleStyleWarning == WithPriority(Issue("pylint", "warning", 3, TRUE), 2)
ExampleComplexity == WithPriority(Issue("complexity", "warning", 5, TRUE), 2)

\* C7 as stated: for the example, equal-priority issues keep their input
\* order, so the list is style/error@5, complexity@5, style/warning@3.
C7_InputOrderKept ==
    (rank_done /\ issues = ExampleIssues)
        => ranked = <<ExampleStyleError, ExampleComplexity, ExampleStyleWarning>>

\* C7 amended: for the example the list is style/error@5 (priority 3),
\* style/warning@3 (priority 2), complexity@5 (priority 2): issues of equal
\* priority are ordered by line, not by their place in the input.
C7_ExampleOrder ==
    (rank_done /\ issues = ExampleIssues)
        => ranked = <<ExampleStyleError, ExampleStyleWarning, ExampleComplexity>>

C7_Witness == rank_done /\ issues = ExampleIssues

\* the issues of seq with the given priority and line, in the order of seq
WithKey(seq, priority, line) ==
    LET Test(x) == x.priority = priority /\ LineOf(x) = line
    IN  SelectSeq(seq, Test)

\* C8: the returned list is ordered by non-increasing priority, then by
\* non-decreasing line (an absent line counts as 0), and issues of equal
\* priority and line are in merge order (style, complexity, maintainability,
\* each family in its analyzer order).
C8_SortOrder ==
    rank_done =>
        /\ \A i \in 1..(Len(ranked) - 1) :
              \/ ranked[i].priority > ranked[i + 1].priority
              \/ /\ ranked[i].priority = ranked[i + 1].priority
                 /\ LineOf(ranked[i]) <= LineOf(ranked[i + 1])
        /\ \A priority \in 1..3, line \in IssueLines \cup {0} :
              WithKey(ranked, priority, line)
                  = WithKey(Collect(issues), priority, line)

\* a style issue and a complexity issue tie on priority and line, and two
\* issues of equal priority were reordered by line
C8_Witness ==
    /\ rank_done
    /\ \E i, j \in 1..Len(ranked) :
          /\ i < j
          /\ ranked[i].type = "pylint" /\ ranked[j].type = "complexity"
          /\ ranked[i].priority = ranked[j].priority
          /\ LineOf(ranked[i]) = LineOf(ranked[j])
    /\ \E i, j \in 1..Len(ranked) :
          /\ i < j
          /\ ranked[i].type = "complexity" /\ ranked[j].type = "pylint"
          /\ ranked[i].priority = ranked[j].priority

\* the number of issues of a family in seq
CountOf(seq, type) == Cardinality({i \in 1..Len(seq) : seq[i].type = type})

\* C9: a style issue gets priority 3 when its severity is exactly 'error'
\* and 2 otherwise, a complexity issue 2 whatever its severity, a
\* maintainability issue 1; every issue of the input is given one.
C9_Priorities ==
    rank_done =>
        /\ \A i \in 1..Len(ranked) :
              /\ ranked[i].type = "pylint" /\ ranked[i].severity = "error"
                    => ranked[i].priority = 3
              /\ ranked[i].type = "pylint" /\ ranked[i].severity # "error"
                    => ranked[i].priority = 2
              /\ ranked[i].type = "complexity" => ranked[i].priority = 2
              /\ ranked[i].type = "maintainability" => ranked[i].priority = 1
              /\ ranked[i].priority \in {1, 2, 3}
        /\ CountOf(ranked, "pylint") = Len(issues.pylint_issues)
        /\ CountOf(ranked, "complexity") = Len(issues.complexity_issues)
        /\ CountOf(ranked, "maintainability") = Len(issues.maintainability_issues)

\* every family is present, with a style issue that is neither error nor
\* warning and a complexity issue of severity error
C9_Witness ==
    /\ rank_done
    /\ \E i \in 1..Len(ranked) :
          ranked[i].type = "pylint" /\ ranked[i].severity = "convention"
    /\ \E i \in 1..Len(ranked) :
          ranked[i].type = "pylint" /\ ranked[i].severity = "error"
    /\ \E i \in 1..Len(ranked) :
          ranked[i].type = "complexity" /\ ranked[i].severity = "error"
    /\ \E i \in 1..Len(ranked) : ranked[i].type = "maintainability"

(***************************************************************************)
(* Properties of concurrent callers (checked under SpecConc).              *)
(***************************************************************************)

\* the positions in the log of a step of p
StepsOf(p, step) ==
    {i \in 1..Len(log) : log[i].proc = p /\ log[i].step = step}

\* C5: two calls of apply_edit on one path never interleave their backup and
\* write steps: no backup or write of one call falls between the backup and
\* the write of the other.
C5_NoInterleaving ==
    \A p, q \in Procs :
        p # q =>
            \A b \in StepsOf(p, "backup"), w \in StepsOf(p, "write") :
                \A i \in StepsOf(q, "backup") \cup StepsOf(q, "write") :
                    ~(b < i /\ i < w)

(***************************************************************************)
(* Properties of the editor (checked under Spec).                          *)
(***************************************************************************)

\* the last call was an edit that reached apply_edit
EditApplied == last.op \in EditOps /\ last.applied

\* the file of the last call held UTF-8 text before the call, and the text
\* an operation read from it
PreDecodes == ReadText(last.pre_content).exc = "None"
PreText == ReadText(last.pre_content).text

\* the target of the last call is as it was before the call
TargetUnchanged ==
    IF last.pre_exists
    THEN /\ last.file_path \in DOMAIN fs
         /\ fs[last.file_path].content = last.pre_content
    ELSE last.file_path \notin DOMAIN fs

\* validation was requested for a .py target and the content handed to
\* apply_edit does not parse
InvalidEdit ==
    /\ EditApplied
    /\ last.validate
    /\ EndsWith(last.file_path, PyExt)
    /\ ~Parse(last.new_content).ok

\* C1: for each of the four edit strategies, with validation on and a .py
\* target, a post-edit content that is syntactically invalid makes the call
\* return success=false and leaves the file content as it was before the call.
C1_InvalidEditLeavesFile ==
    InvalidEdit =>
        /\ last.exc = "None"
        /\ ~last.result.success
        /\ TargetUnchanged

\* a substring edit whose result does not parse reached the validation gate
C1_Witness ==
    /\ InvalidEdit
    /\ last.op = "apply_partial_edit"
    /\ last.trace.validation = "invalid"

\* C2: when an edit returns success=true with a backup_path, the content
\* stored at that path is the content the target had just before the call.
C2_BackupHoldsPreContent ==
    (EditApplied /\ last.result.success /\ last.result.backup_path # NoPath)
        => /\ last.result.backup_path \in DOMAIN fs
           /\ fs[last.result.backup_path].content = last.pre_content

\* a successful edit whose backup took the name of the backup of an earlier
\* edit of the same second
C2_Witness ==
    /\ EditApplied
    /\ last.result.success
    /\ last.result.backup_path = BackupPathFor(PathA, 0)
    /\ last.pre_content = ContentTwoF

\* C3: when apply_edit returns, the target holds either the complete new
\* content or the complete content it had before the call.
C3_NeverPartlyWritten ==
    (EditApplied /\ last.exc = "None")
        => \/ TargetUnchanged
           \/ /\ last.file_path \in DOMAIN fs
              /\ fs[last.file_path].content = last.new_content

\* the write raised after a backup was made
WriteRaisedAfterBackup ==
    last.trace.write = "raised" /\ last.trace.backup = "ok"

\* C4 as stated: a restore happens only when the write raised after a backup
\* was made, and then the file is restored from the backup and the result
\* carries restored=true; a validation failure never restores.
C4_RollbackAlwaysRestores ==
    EditApplied =>
        /\ (last.result.restored \/ last.trace.restore # "not_attempted")
              => WriteRaisedAfterBackup
        /\ WriteRaisedAfterBackup
              => /\ last.result.restored
                 /\ TargetUnchanged
        /\ last.trace.validation = "invalid"
              => last.trace.restore = "not_attempted" /\ ~last.result.restored

\* C4 amended: a restore is attempted only when the write raised after a
\* backup was made; when the restore copy succeeds the file holds the backup
\* (its content before the call) and the result carries restored=true; when
\* the restore copy itself fails, the result carries no restored flag; a
\* validation failure never restores.
C4_Rollback ==
    EditApplied =>
        /\ (last.result.restored \/ last.trace.restore # "not_attempted")
              => WriteRaisedAfterBackup
        /\ WriteRaisedAfterBackup
              => /\ last.trace.restore \in {"ok", "raised"}
                 /\ last.trace.restore = "ok"
                       => /\ last.result.restored
                          /\ TargetUnchanged
                          /\ fs[last.result.backup_path].content = last.pre_content
                 /\ last.trace.restore = "raised" => ~last.result.restored
        /\ last.trace.validation = "invalid"
              => last.trace.restore = "not_attempted" /\ ~last.result.restored

\* the write raised after a backup and the file was restored from it
C4_Witness ==
    /\ EditApplied
    /\ WriteRaisedAfterBackup
    /\ last.result.restored
    /\ ~last.result.success

\* the failures of a mutation, told from the arguments of the call and the
\* file before it
MutationFailed ==
    \/ ~last.pre_exists /\ (last.op # "apply_edit" \/ last.create_backup)
    \/ last.trace.backup \in {"raised", "io_raised"}
    \/ last.op # "apply_edit" /\ last.pre_exists /\ ~PreDecodes
    \/ /\ last.op = "apply_partial_edit" /\ last.pre_exists
       /\ \/ ~Contains(PreText, last.old_code)
          \/ ReplaceFirst(PreText, last.old_code, last.new_code) = PreText
    \/ /\ last.op = "apply_line_edit" /\ last.pre_exists
       /\ \/ last.line_number < 1
          \/ last.line_number > Len(ReadLines(PreText))
    \/ /\ last.op = "apply_function_edit" /\ last.pre_exists
       /\ \/ ~Parse(PreText).ok
          \/ \A i \in 1..Len(Parse(PreText).defs) :
                Parse(PreText).defs[i].name # last.function_name
    \/ InvalidEdit
    \/ last.trace.write = "raised"

\* C6: the four edit operations never raise, and every mutation failure
\* comes back as a result with success=false.
C6_FailuresAreReturned ==
    last.op \in EditOps =>
        /\ last.exc = "None"
        /\ MutationFailed => ~last.result.success

\* a line edit of a file that does not exist came back as a failed result
C6_Witness ==
    /\ last.op = "apply_line_edit"
    /\ ~last.pre_exists
    /\ last.exc = "None"
    /\ ~last.result.success

\* the definitions named as the last function edit asked, in the file before it
EditedDefs ==
    LET defs == Parse(PreText).defs
    IN  {defs[i] : i \in {j \in 1..Len(defs) :
                            /\ defs[j].type = "FunctionDef"
                            /\ defs[j].name = last.function_name}}

\* the content after the lines of definition d were replaced by the new text
Rewritten(d) ==
    LET lines == SplitLines(PreText)
    IN  JoinLines(SubSeq(lines, 1, d.lineno - 1) \o <<last.new_code>>
                  \o SubSeq(lines, EndLineno(PreText, d.lineno) + 1,
                            Len(lines)))

\* a function edit succeeded on a file with two definitions of the name
DuplicateEdited ==
    /\ last.op = "apply_function_edit"
    /\ last.result.success
    /\ Cardinality(EditedDefs) = 2

PostText == ReadText(fs[last.file_path].content).text

FunctionEdited == last.op = "apply_function_edit" /\ last.result.success

\* the lines [s, e] of the definition the function edit replaced
EditedSpan ==
    LET defs == Parse(PreText).defs
        d == defs[FirstMatch(defs, last.function_name)]
    IN  [s |-> d.lineno, e |-> EndLineno(PreText, d.lineno)]

\* C11: after a successful function replace of a function spanning lines
\* [s, e], every line of the file before line s and every line after line e
\* is unchanged and in the same order, and the lines s..e are replaced by
\* exactly the new function text.
C11_LinesOutsideSpanKept ==
    FunctionEdited =>
        LET pre == SplitLines(last.pre_content)
            post == SplitLines(fs[last.file_path].content)
            new == SplitLines(last.new_code)
            shift == Len(new) - (EditedSpan.e - EditedSpan.s + 1)
        IN  /\ Len(post) = Len(pre) + shift
            /\ \A i \in 1..(EditedSpan.s - 1) : post[i] = pre[i]
            /\ \A j \in 1..Len(new) : post[EditedSpan.s - 1 + j] = new[j]
            /\ \A i \in (EditedSpan.e + 1)..Len(pre) : post[i + shift] = pre[i]

SubstringEdited == last.op = "apply_partial_edit" /\ last.result.success

\* C12: for every substring edit in which old occurs exactly once in the
\* current content and new differs from old, applying the edit and re-reading
\* the file yields the previous content with that occurrence of old replaced
\* by new and every character before and after it unchanged.
C12_SubstringRoundTrip ==
    (/\ SubstringEdited
     /\ Cardinality(Occurrences(PreText, last.old_code)) = 1
     /\ last.new_code # last.old_code)
        => LET i == Find(PreText, last.old_code)
           IN  PostText = SubSeq(PreText, 1, i - 1) \o last.new_code
                          \o SubSeq(PreText, i + Len(last.old_code), Len(PreText))

\* a substring edit that read its target
SubstringEditRead ==
    last.op = "apply_partial_edit" /\ last.pre_exists /\ PreDecodes

\* the call was rejected before apply_edit, with this error
RejectedWith(error) ==
    /\ last.exc = "None"
    /\ ~last.applied
    /\ ~last.result.success
    /\ ~last.result.changes_made
    /\ last.result.error = error
    /\ last.result.backup_path = NoPath
    /\ TargetUnchanged

\* C13: substring replace fails with a pattern-not-found error when old does
\* not occur in the current content, and with a no-op-change error when old
\* occurs and new is identical to old; in both cases success=false and
\* changes_made=false.
C13_PatternGuards ==
    SubstringEditRead =>
        /\ Occurrences(PreText, last.old_code) = {}
              => RejectedWith("Old code not found in file")
        /\ (Occurrences(PreText, last.old_code) # {}
            /\ last.new_code = last.old_code)
              => RejectedWith("No changes were made")

\* a replacement of p by p in a file that holds p was refused
C13_Witness ==
    /\ SubstringEditRead
    /\ Occurrences(PreText, last.old_code) # {}
    /\ last.new_code = last.old_code
    /\ last.result.error = "No changes were made"

\* a line edit that read its target, and the lines it read
LineEditRead == last.op = "apply_line_edit" /\ last.pre_exists /\ PreDecodes
PreLines == ReadLines(PreText)

\* C14: line replace fails with an out-of-range error for every line_number
\* outside [1, lineCount], and reaches the write for every line_number inside
\* it, where it succeeds unless validation or a file operation fails.
C14_LineRange ==
    LineEditRead =>
        IF last.line_number < 1 \/ last.line_number > Len(PreLines)
        THEN RejectedWith("Invalid line number")
        ELSE /\ last.applied
             /\ (/\ last.trace.validation # "invalid"
                 /\ FaultsIn(last.trace) = 0) => last.result.success

\* line_number = lineCount + 1 was refused
C14_Witness ==
    /\ LineEditRead
    /\ Len(PreLines) > 0
    /\ last.line_number = Len(PreLines) + 1
    /\ last.result.error = "Invalid line number"

RECURSIVE RStripNewlines(_)
\* text without the line terminators at its end
RStripNewlines(text) ==
    IF Len(text) > 0 /\ text[Len(text)] = NL
    THEN RStripNewlines(SubSeq(text, 1, Len(text) - 1))
    ELSE text

\* C15: after a successful line replace at line k, line k is the replacement
\* text ended by exactly one line terminator, the file has as many lines as
\* before, and every other line is unchanged.
C15_OneLineReplaced ==
    (LineEditRead /\ last.result.success) =>
        LET post == ReadLines(PostText)
        IN  /\ Len(post) = Len(PreLines)
            /\ \A i \in 1..Len(post) :
                  post[i] = IF i = last.line_number
                            THEN RStripNewlines(last.new_code) \o <<NL>>
                            ELSE PreLines[i]

\* a function edit whose target parsed
FunctionEditParsed ==
    /\ last.op = "apply_function_edit"
    /\ last.pre_exists
    /\ PreDecodes
    /\ Parse(PreText).ok

\* the definitions of the target, synchronous or asynchronous, with the
\* requested name
NamedDefs ==
    {i \in 1..Len(Parse(PreText).defs) :
        Parse(PreText).defs[i].name = last.function_name}

\* C16: function replace fails with a function-not-found error whenever the
\* content has no definition, synchronous or asynchronous, of the requested
\* name, and locates the definition whenever there is one.
C16_DefinitionLocated ==
    FunctionEditParsed =>
        IF NamedDefs = {}
        THEN RejectedWith("Function not found in file")
        ELSE last.applied

\* the error each rejecting guard reports
GuardErrors ==
    {"Old code not found in file", "No changes were made", "Invalid line number",
     "Function not found in file", "Syntax validation failed"}

\* C17: every result with success=false of the four edit operations carries
\* an error, each rejecting guard reports its own error, and every result with
\* success=true carries none.
C17_ErrorsNameTheGuard ==
    last.op \in EditOps =>
        /\ last.result.success <=> last.result.error = "None"
        /\ Cardinality(GuardErrors) = 5
        /\ (SubstringEditRead /\ Occurrences(PreText, last.old_code) = {})
              => last.result.error = "Old code not found in file"
        /\ (/\ SubstringEditRead
            /\ Occurrences(PreText, last.old_code) # {}
            /\ ReplaceFirst(PreText, last.old_code, last.new_code) = PreText)
              => last.result.error = "No changes were made"
        /\ (/\ LineEditRead
            /\ (last.line_number < 1 \/ last.line_number > Len(PreLines)))
              => last.result.error = "Invalid line number"
        /\ (FunctionEditParsed /\ EditedDefs = {})
              => last.result.error = "Function not found in file"
        /\ (InvalidEdit /\ last.trace.backup \in {"skipped", "ok"})
              => last.result.error = "Syntax validation failed"
        /\ last.result.error \in GuardErrors
              => ~last.result.success /\ TargetUnchanged

\* a function edit that found no function of the name says so
C17_Witness ==
    /\ FunctionEditParsed
    /\ EditedDefs = {}
    /\ ~last.result.success
    /\ last.result.error = "Function not found in file"

(***************************************************************************)
(* Backups: comparison, names and places.                                  *)
(***************************************************************************)

\* the last call compared a file with the backup that the call just before it
\* took of that file
ComparedFreshBackup ==
    /\ last.op = "compare_with_backup"
    /\ last.prev.op = "create_backup"
    /\ last.prev.backup_path # NoPath
    /\ last.prev.file_path = last.file_path
    /\ last.backup_arg = last.prev.backup_path

\* C18 as stated: for every existing file, create_backup followed at once by
\* compare_with_backup of the file and the returned backup reports
\* identical=true and size_difference=0.
C18_FreshBackupIdentical ==
    ComparedFreshBackup =>
        /\ last.comparison.identical
        /\ last.comparison.size_difference = 0

\* C18 amended: the comparison reports identical=true and size_difference=0
\* when the file is UTF-8 text; for any other file it reports identical=false
\* together with the decoding error.
C18_FreshTextBackupIdentical ==
    ComparedFreshBackup =>
        IF PreDecodes
        THEN /\ last.comparison.identical
             /\ last.comparison.size_difference = 0
             /\ last.comparison.error = "None"
             /\ last.comparison.current_lines = last.comparison.backup_lines
        ELSE /\ ~last.comparison.identical
             /\ last.comparison.error = "UnicodeDecodeError"

\* a text file was compared with the backup just taken of it
C18_Witness ==
    /\ ComparedFreshBackup
    /\ PreDecodes
    /\ last.comparison.identical
    /\ last.comparison.current_lines > 1

\* C19: every call that takes a backup returns a stored path that no earlier
\* backup has, and leaves every earlier backup with its content.
C19_BackupsNeverCollide ==
    [][(calls' = calls + 1 /\ last'.result.backup_path # NoPath)
          => /\ last'.result.backup_path \notin DOMAIN fs
             /\ \A q \in (DOMAIN fs) \ BackupSources : fs'[q] = fs[q]]_vars

\* C20: for every source path, relative or absolute, the stored path returned
\* by create_backup lies under the backup root, and its file name is
\* <original-name>.<timestamp>.bak.
C20_BackupUnderRoot ==
    (last.op = "create_backup" /\ last.result.backup_path # NoPath) =>
        /\ StartsWith(last.result.backup_path, BackupDir \o <<SEP>>)
        /\ \E c \in 0..MaxClock :
              Basename(last.result.backup_path)
                 = Basename(last.file_path) \o <<".">> \o Timestamp(c) \o BakExt

\* the outcome of the last call, a restore_from_backup
Restored == last.op = "restore_from_backup"

\* C22: restore_from_backup never raises; when it returns false the live
\* file is as it was before the call, and when it returns true the live file
\* holds the content of the backup.
C22_RestoreAllOrNothing ==
    Restored =>
        /\ last.exc = "None"
        /\ ~last.ret => TargetUnchanged
        /\ last.ret => /\ last.file_path \in DOMAIN fs
                       /\ fs[last.file_path].content = fs[last.backup_arg].content

\* an edit that asked for a backup reached apply_edit and was rejected by
\* the syntax validation
RejectedWithBackup ==
    /\ last.op \in EditOps
    /\ last.applied
    /\ last.create_backup
    /\ last.trace.validation = "invalid"

\* C30: an edit with a backup requested that the validation rejects returns
\* success=false with a backup_path that is not null, and the backup holds
\* the content of the live file, which is unchanged.
C30_BackupBeforeValidation ==
    RejectedWithBackup =>
        /\ last.exc = "None"
        /\ ~last.result.success
        /\ last.result.backup_path # NoPath
        /\ last.result.backup_path \in DOMAIN fs
        /\ fs[last.result.backup_path].content = last.pre_content
        /\ TargetUnchanged

\* a rejected edit of an existing file left a backup behind
C30_Witness ==
    /\ RejectedWithBackup
    /\ last.pre_exists
    /\ last.result.backup_path \in DOMAIN fs
    /\ last.result.error = "Syntax validation failed"

\* the second in which the backup stored at path was taken, read off its name
CreatedAt(path) ==
    CHOOSE c \in 0..MaxHistClock : path = BackupPathFor(PathA, c)

\* C21: in the list get_backups returns, a backup created later stands
\* before every backup created earlier.
C21_NewestFirst ==
    last.op = "get_backups" =>
        \A i, j \in 1..Len(last.listing) :
            CreatedAt(last.listing[i].path) > CreatedAt(last.listing[j].path)
                => i < j

\* C21 with ties set aside: the same, for two backups whose modification
\* times differ.
C21_NewestFirstNoTies ==
    last.op = "get_backups" =>
        \A i, j \in 1..Len(last.listing) :
            /\ CreatedAt(last.listing[i].path) > CreatedAt(last.listing[j].path)
            /\ last.listing[i].timestamp # last.listing[j].timestamp
            => i < j

\* analyze_file was called on a Python source file
Scanned == scan.done /\ EndsWith(scan.file_path, PyExt)

\* the analyzers that did not fail in the last analyze_file call
PylintWorked == scan.outcome.pylint = "ok"
ComplexityWorked ==
    scan.outcome.complexity = "ok" /\ ~Unreadable(fs, scan.file_path)
MaintainabilityWorked ==
    scan.outcome.maintainability = "ok" /\ ~Unreadable(fs, scan.file_path)

\* C23: analyze_file does not fail, and every analyzer that did not fail has
\* all the issues it found in the result, whichever other analyzers failed.
C23_AnalyzersIndependent ==
    Scanned =>
        /\ scan.exc = "None"
        /\ PylintWorked => scan.result.pylint_issues = scan.found.pylint_issues
        /\ ComplexityWorked =>
              scan.result.complexity_issues = scan.found.complexity_issues
        /\ MaintainabilityWorked =>
              scan.result.maintainability_issues
                 = scan.found.maintainability_issues

\* the first analyzer failed and the two after it reported what they found
C23_Witness ==
    /\ Scanned
    /\ scan.outcome.pylint \in {"raise", "raise_in_loop"}
    /\ ComplexityWorked
    /\ MaintainabilityWorked
    /\ scan.result.complexity_issues # <<>>
    /\ scan.result.maintainability_issues # <<>>

\* C24: when the analyzer times out, its issue list is exactly one synthetic
\* issue of severity error that describes the timeout, and analyze_file
\* returns.
C24_TimeoutIsOneIssue ==
    (Scanned /\ scan.outcome.pylint = "timeout") =>
        /\ scan.exc = "None"
        /\ Len(scan.result.pylint_issues) = 1
        /\ scan.result.pylint_issues[1].type = "pylint"
        /\ scan.result.pylint_issues[1].severity = "error"
        /\ scan.result.pylint_issues[1].message = "Pylint analysis timed out"

\* the analyzer timed out on a file in which it would have found an issue
C24_Witness ==
    /\ Scanned
    /\ scan.outcome.pylint = "timeout"
    /\ scan.found.pylint_issues # <<>>
    /\ Len(scan.result.pylint_issues) = 1

(***************************************************************************)
(* Properties of fix_repository (checked under SpecFix).                   *)
(***************************************************************************)

RECURSIVE FirstFive(_)
\* the issues a run has to address: of each file of the analysis in turn,
\* the first five of its ranked list, or all when there are fewer
FirstFive(all_issues) ==
    IF all_issues = <<>> THEN <<>>
    ELSE LET head == Head(all_issues)
             n == IF Len(head.issues) < 5 THEN Len(head.issues) ELSE 5
         IN  [k \in 1..n |-> [file |-> head.file, issue |-> head.issues[k]]]
             \o FirstFive(Tail(all_issues))

\* the issues the passes of the loop were about, in the order of the passes
Addressed ==
    [k \in 1..Len(run.handled) |->
        [file |-> run.handled[k].file, issue |-> run.handled[k].issue]]

\* the passes for one file in which the generator, the engine was invoked
GeneratorCalls(file) ==
    {k \in 1..Len(run.handled) :
        run.handled[k].file = file /\ run.handled[k].generator # "not_called"}
EngineCalls(file) ==
    {k \in 1..Len(run.handled) : run.handled[k].file = file /\ run.handled[k].engine}

\* the run is over and had issues to address
RunDone == run.phase = "done" /\ run.analysis # <<>>

\* C25: generator and engine are invoked for at most 5 issues per file, and
\* the issues addressed are the first min(5, n) of each file's ranked list,
\* in ranked order.
C25_FiveIssuesPerFile ==
    /\ \A file \in RunFiles :
          Cardinality(GeneratorCalls(file)) <= 5 /\ Cardinality(EngineCalls(file)) <= 5
    /\ Len(Addressed) <= Len(FirstFive(run.analysis))
    /\ Addressed = SubSeq(FirstFive(run.analysis), 1, Len(Addressed))
    /\ RunDone => Addressed = FirstFive(run.analysis)

\* a run is over in which a file had more than five issues and the engine
\* was invoked for five of them
C25_Witness ==
    /\ RunDone
    /\ \E k \in 1..Len(run.analysis) :
          /\ Len(run.analysis[k].issues) > 5
          /\ Cardinality(EngineCalls(run.analysis[k].file)) = 5
    /\ Len(run.analysis) = 2

\* the frame of a dry run: no file is changed or created, nothing is
\* committed, no fix is applied
DryRunFrame ==
    /\ fs = run.fs0
    /\ run.commits = <<>>
    /\ run.applied = <<>>
    /\ \A k \in 1..Len(run.handled) : ~run.handled[k].engine
    /\ run.phase = "done" => run.report.fixes_applied = 0
    /\ RunDone => Len(run.handled) = Len(FirstFive(run.analysis))

FailedPasses ==
    {k \in 1..Len(run.handled) : run.handled[k].outcome \in {"rejected", "raised"}}

\* C27: every failed mutation and every exception of a pass is recorded in
\* the failed list, and the loop goes on: the run ends only when every
\* selected issue of every file had its pass.
C27_FailuresDoNotStopTheLoop ==
    /\ Len(run.failed) = Cardinality(FailedPasses)
    /\ \A k \in FailedPasses :
          \E j \in 1..Len(run.failed) : run.failed[j].file = run.handled[k].file
    /\ \A k \in FailedPasses :
          k < Len(FirstFive(run.analysis)) =>
              \/ Len(run.handled) > k
              \/ run.phase = "fixing" /\ run.f <= Len(run.analysis)
    /\ RunDone => Len(run.handled) = Len(FirstFive(run.analysis))

\* a pass failed, and a later pass for another file applied a fix
C27_Witness ==
    /\ RunDone
    /\ \E k \in FailedPasses :
          \E j \in 1..Len(run.handled) :
              /\ j > k
              /\ run.handled[j].file # run.handled[k].file
              /\ run.handled[j].outcome = "applied"

\* C28: the report has success=true exactly when the failed list is empty,
\* and a run in which a mutation was rejected or raised reports
\* success=false.
C28_SuccessIffNothingFailed ==
    run.phase = "done" =>
        /\ run.report.success <=> Len(run.failed) = 0
        /\ run.report.fixes_failed \in {NoCount, Len(run.failed)}
        /\ run.report.success <=> FailedPasses = {}
        /\ (\E k \in FailedPasses : run.handled[k].engine) => ~run.report.success

\* a run is over in which one mutation was rejected and another applied
C28_Witness ==
    /\ RunDone
    /\ ~run.report.success
    /\ run.report.fixes_applied > 0
    /\ \E k \in FailedPasses :
          run.handled[k].engine /\ run.handled[k].outcome = "rejected"

\* the last pass of the loop, when there is one; a pass in which the
\* generator returned empty code
LastPass(r) == r.handled[Len(r.handled)]
EmptyCode(pass) == pass.generator = "returned" /\ pass.code = <<>>

\* C29: a pass in which the generator returns empty code does not invoke
\* the engine, changes no file and no backup, and adds nothing to the
\* applied and the failed list.
C29_EmptyCodeIsSkipped ==
    [][(Len(run'.handled) = Len(run.handled) + 1 /\ EmptyCode(LastPass(run')))
          => /\ ~LastPass(run').engine
             /\ LastPass(run').outcome = "skipped"
             /\ fs' = fs
             /\ run'.applied = run.applied
             /\ run'.failed = run.failed]_vars

\* C29 amended: a pass in which the generator returns empty code and the
\* interaction is logged does not invoke the engine, changes no file and no
\* backup, and adds nothing to the applied and the failed list; when
\* logging the interaction raises, the engine is not invoked and no file
\* changes either, and the issue is recorded as failed.
C29_EmptyCodeIsSkippedWhenLogged ==
    [][(Len(run'.handled) = Len(run.handled) + 1 /\ EmptyCode(LastPass(run')))
          => /\ ~LastPass(run').engine
             /\ fs' = fs
             /\ run'.applied = run.applied
             /\ IF LastPass(run').logged = "ok"
                THEN /\ LastPass(run').outcome = "skipped"
                     /\ run'.failed = run.failed
                ELSE /\ LastPass(run').outcome = "raised"
                     /\ Len(run'.failed) = Len(run.failed) + 1]_vars

\* in a run that is not a dry run the generator returned empty code, and
\* the run went on to apply a fix
C29_Witness ==
    /\ RunDone
    /\ ~run.dry_run
    /\ \E k \in 1..Len(run.handled) :
          /\ EmptyCode(run.handled[k])
          /\ run.handled[k].outcome = "skipped"
    /\ run.applied # <<>>

\* a substring edit whose old text occurs more than once in the text read,
\* with a new text that differs from it
Recurs ==
    /\ SubstringEditRead
    /\ Cardinality(Occurrences(PreText, last.old_code)) > 1
    /\ last.new_code # last.old_code

MaxBlocks == 2

\* the largest cyclomatic complexity of a function
MaxCyclomatic == 8

\* the values of max_complexity in the configuration
Thresholds == {1, 2}

\* what cc_visit yields for the k-th function of a file, at line 2k + 1
Block(k, complexity) ==
    [name |-> "f", lineno |-> 2 * k + 1, complexity |-> complexity]

\* the lists cc_visit can yield
BlockChoices ==
    UNION {{[k \in 1..n |-> Block(k, c[k])] : c \in [1..n -> 1..MaxCyclomatic]}
           : n \in 0..MaxBlocks}

FlaggedFromThreshold(complexity, max_complexity) == complexity >= max_complexity

\* if result.complexity > self.max_complexity
Flagged(complexity, max_complexity) == complexity > max_complexity

ComplexitySeverityStrict(complexity, max_complexity) ==
    IF complexity < max_complexity + 5 THEN "warning" ELSE "error"

\* 'warning' if result.complexity <= self.max_complexity + 5 else 'error'
ComplexitySeverity(complexity, max_complexity) ==
    IF complexity <= max_complexity + 5 THEN "warning" ELSE "error"

\* the dictionary appended for one block
ComplexityIssue(block, max_complexity) ==
    [function |-> block.name, complexity |-> block.complexity,
     max_allowed |-> max_complexity]
    @@ Issue("complexity",
             ComplexitySeverity(block.complexity, max_complexity),
             block.lineno, TRUE)

RECURSIVE FlagBlocks(_, _)
\* for result in complexity_results: if ...: issues.append({...})
FlagBlocks(blocks, max_complexity) ==
    IF blocks = <<>> THEN <<>>
    ELSE (IF Flagged(Head(blocks).complexity, max_complexity)
          THEN <<ComplexityIssue(Head(blocks), max_complexity)>>
          ELSE <<>>)
         \o FlagBlocks(Tail(blocks), max_complexity)

ComplexityInit ==
    /\ fs \in InitialFileSystems
    /\ clock = 0
    /\ faults = 0
    /\ calls = 0
    /\ last = NoCall
    /\ RankIdle
    /\ ConcIdle
    /\ FlowIdle

\* one call of _analyze_complexity on a file of the repository
DoAnalyzeComplexity ==
    /\ ~scan.done
    /\ \E file_path \in Targets, blocks \in BlockChoices,
          max_complexity \in Thresholds, outcome \in AnalyzerOutcomes :
           \E r \in {AnalyzeComplexity(fs, file_path,
                                       FlagBlocks(blocks, max_complexity),
                                       outcome)} :
               scan' = [done |-> TRUE, file_path |-> file_path,
                        found |-> blocks,
                        outcome |-> [complexity |-> outcome,
                                     max_complexity |-> max_complexity],
                        result |-> r.issues, exc |-> r.exc]
    /\ UNCHANGED <<editorVars, rankVars, concVars, run>>

ComplexityNext == DoAnalyzeComplexity

SpecComplexity == ComplexityInit /\ [][ComplexityNext]_vars

\* the complexity analyzer read the file and radon worked
ComplexityAnalyzed ==
    /\ scan.done
    /\ scan.outcome.complexity = "ok"
    /\ ~Unreadable(fs, scan.file_path)

\* the issues reported at the line of a block
IssuesAt(lineno) ==
    {k \in 1..Len(scan.result) :
        scan.result[k].type = "complexity" /\ scan.result[k].line = lineno}

\* C32: the complexity analyzer emits an issue for a function exactly when
\* its complexity is greater than max_complexity (one issue, none
\* otherwise); the severity is 'error' exactly when the complexity is
\* greater than max_complexity + 5, and 'warning' from max_complexity + 1 to
\* max_complexity + 5.
C32_ComplexityThresholds ==
    ComplexityAnalyzed =>
        LET max == scan.outcome.max_complexity
        IN  /\ scan.exc = "None"
            /\ Len(scan.result)
                 = Cardinality({k \in 1..Len(scan.found) :
                                   scan.found[k].complexity > max})
            /\ \A k \in 1..Len(scan.found) :
                 LET block == scan.found[k]
                     at == IssuesAt(block.lineno)
                 IN  /\ block.complexity > max <=> at # {}
                     /\ Cardinality(at) <= 1
                     /\ \A i \in at :
                          /\ scan.result[i].complexity = block.complexity
                          /\ scan.result[i].max_allowed = max
                          /\ scan.result[i].severity = "error"
                               <=> block.complexity > max + 5
                          /\ scan.result[i].severity = "warning"
                               <=> (max < block.complexity
                                    /\ block.complexity <= max + 5)

\* one function exactly at max_complexity + 5 was reported as a warning and
\* one above it as an error
C32_Witness ==
    /\ ComplexityAnalyzed
    /\ Len(scan.found) = 2
    /\ scan.found[1].complexity = scan.outcome.max_complexity + 5
    /\ scan.found[2].complexity = scan.outcome.max_complexity + 6
    /\ Len(scan.result) = 2
    /\ scan.result[1].severity = "warning"
    /\ scan.result[2].severity = "error"

\* the errors of the guards that come before apply_edit
PreApplyErrors ==
    {"Old code not found in file", "No changes were made",
     "Invalid line number", "Function not found in file", "SyntaxError"}

\* the last call was refused by a guard before apply_edit
GuardRejected ==
    /\ last.op \in EditOps
    /\ ~last.applied
    /\ last.exc = "None"
    /\ last.result.error \in PreApplyErrors

\* C33: when an edit is refused by a guard before apply_edit (pattern
\* missing, no-op change, line out of range, function not found, current
\* content not parsable for function replace), the call creates no backup
\* and changes no file, the result's backup_path is null and success is
\* false.
C33_GuardsLeaveNoTrace ==
    [][(last' # last /\ GuardRejected')
          => /\ fs' = fs
             /\ last'.result.backup_path = NoPath
             /\ ~last'.result.success]_vars

\* a function replace on a file that does not parse, and a line edit out of
\* range, were refused although a backup had been asked for
C33_Witness ==
    /\ GuardRejected
    /\ last.create_backup
    /\ last.result.error \in {"SyntaxError", "Invalid line number"}
    /\ BackupPathFor(last.file_path, clock) \notin DOMAIN fs

\* the last call reached apply_edit with a backup requested
BackupRequested == EditApplied /\ last.create_backup

\* the backup of the last call could not be created: the target did not
\* exist, or the copy failed
BackupFailed ==
    /\ BackupRequested
    /\ \/ ~last.pre_exists
       \/ last.trace.backup \in {"raised", "io_raised"}

\* C34: when a backup is requested, apply_edit writes the target only after
\* the backup was created: a call that reached the write has a backup_path
\* that holds the content the target had before the call; and when the
\* backup cannot be created (the target does not exist, or the copy fails)
\* the call returns success=false with a null backup_path, the write is not
\* reached and the target is neither written nor created.
C34_WriteOnlyAfterBackup ==
    /\ (BackupRequested /\ last.trace.write # "not_reached")
          => /\ last.pre_exists
             /\ last.trace.backup = "ok"
             /\ last.result.backup_path # NoPath
             /\ last.result.backup_path \in DOMAIN fs
             /\ fs[last.result.backup_path].content = last.pre_content
    /\ BackupFailed
          => /\ last.exc = "None"
             /\ ~last.result.success
             /\ last.result.backup_path = NoPath
             /\ last.result.error \in {"FileNotFoundError", "OSError"}
             /\ last.trace.write = "not_reached"
             /\ TargetUnchanged

\* apply_edit with a backup requested on a file that does not exist: the
\* file was not created
C34_Witness ==
    /\ BackupFailed
    /\ last.op = "apply_edit"
    /\ ~last.pre_exists
    /\ last.file_path \notin DOMAIN fs
    /\ last.result.error = "FileNotFoundError"

\* C35: whenever apply_edit returns success=true, the target holds exactly
\* the given new content, the result has no restored flag and no error, and,
\* if validation was requested on a .py target, the recorded validation
\* outcome is valid (the new content parses).
C35_SuccessMeansWritten ==
    (EditApplied /\ last.result.success)
        => /\ last.exc = "None"
           /\ last.file_path \in DOMAIN fs
           /\ fs[last.file_path].content = last.new_content
           /\ ~last.result.restored
           /\ last.result.error = "None"
           /\ last.trace.write = "ok"
           /\ (last.validate /\ EndsWith(last.file_path, PyExt))
                 => /\ last.result.validation = "valid"
                    /\ Parse(last.new_content).ok

\* a validated apply_edit replaced the content of an existing file by a
\* different one
C35_Witness ==
    /\ last.op = "apply_edit"
    /\ last.result.success
    /\ last.validate
    /\ last.pre_exists
    /\ last.pre_content # last.new_content
    /\ last.result.validation = "valid"

\* the last call reached apply_edit and its backup, if one was asked for,
\* was taken
PastBackup == EditApplied /\ last.trace.backup \in {"skipped", "ok"}

\* C36: the validation gate applies only to targets whose path ends in
\* '.py' with validate=true.  For any other target, or with validate=false,
\* apply_edit records no validation outcome and goes on to write the new
\* content whatever its syntax: the call succeeds with the new content in
\* the file unless the write itself fails.  For a .py target with
\* validate=true an outcome is recorded.
C36_GateOnlyForPython ==
    PastBackup =>
        IF last.validate /\ EndsWith(last.file_path, PyExt)
        THEN /\ last.result.validation \in {"valid", "invalid"}
             /\ last.result.validation = "invalid"
                   => last.trace.write = "not_reached"
        ELSE /\ last.result.validation = "None"
             /\ last.trace.validation = "skipped"
             /\ last.trace.write \in {"ok", "raised"}
             /\ last.result.error # "Syntax validation failed"
             /\ last.trace.write = "ok"
                   => /\ last.result.success
                      /\ fs[last.file_path].content = last.new_content

\* with validate=true a content that is not valid Python was written to a
\* file that is not a .py file
C36_Witness ==
    /\ PastBackup
    /\ last.validate
    /\ last.file_path = PathTxt
    /\ ~Parse(last.new_content).ok
    /\ last.result.success
    /\ fs[PathTxt].content = last.new_content

\* the history so far is k successful edits, each made with a backup,
\* followed by one restore
EditsThenRestore ==
    /\ Len(log) >= 2
    /\ log[Len(log)].op = "restore_from_backup"
    /\ \A k \in 1..(Len(log) - 1) :
          /\ log[k].op = "apply_edit"
          /\ log[k].ok
          /\ log[k].backup_path # NoPath

\* C37: after any sequence of k successful edits of one file, each made
\* with a backup, restore_from_backup with the backup_path returned by the
\* i-th edit returns true and leaves the file with exactly the content it
\* had immediately before the i-th edit.
C37_RestoreUndoesEdit ==
    EditsThenRestore =>
        \A i \in 1..(Len(log) - 1) :
            log[Len(log)].backup_path = log[i].backup_path
                => /\ log[Len(log)].ok
                   /\ fs[PathA].content = log[i].pre_content

\* C37 for edits made in different seconds: the same, when no two of the
\* edits returned the same backup_path.
C37_RestoreUndoesEditOfItsSecond ==
    (/\ EditsThenRestore
     /\ \A i, j \in 1..(Len(log) - 1) :
           i # j => log[i].backup_path # log[j].backup_path)
        => \A i \in 1..(Len(log) - 1) :
              log[Len(log)].backup_path = log[i].backup_path
                  => /\ log[Len(log)].ok
                     /\ fs[PathA].content = log[i].pre_content

(***************************************************************************)
(* Backups of several files and their listings (SpecList): a.py, a file    *)
(* whose name starts with a.py, and a file named a.py in a directory       *)
(* below.  log holds, for every backup taken, the file it was taken from.  *)
(***************************************************************************)

\* the calls of create_backup in one run
MaxListed == 2

PathAi == <<"a", ".", "p", "y", "i">>
PathD == <<"d", SEP, "a", ".", "p", "y">>
ListedFiles == {PathA, PathAi, PathD}

ListInit ==
    /\ fs = [q \in ListedFiles |-> File(ContentP, 0)]
    /\ clock = 0
    /\ faults = 0
    /\ calls = 0
    /\ last = NoCall
    /\ RankIdle
    /\ ConcIdle
    /\ FlowIdle

ListTick ==
    /\ clock < MaxClock
    /\ clock' = clock + 1
    /\ UNCHANGED <<fs, faults, calls, last, rankVars, concVars, flowVars>>

ListBackup ==
    /\ calls < MaxListed
    /\ \E file_path \in ListedFiles :
           \E r \in {CreateBackup(fs, clock, file_path, "ok")} :
               /\ calls' = calls + 1
               /\ fs' = r.fs
               /\ last' = [NoCall EXCEPT
                             !.op = "create_backup", !.file_path = file_path,
                             !.result = [EmptyResult EXCEPT !.backup_path = r.ret]]
               /\ log' = Append(log, [file_path |-> file_path,
                                      backup_path |-> r.ret])
    /\ UNCHANGED <<clock, faults, rankVars, pc, req, flowVars>>

\* get_backups changes no file; the directory is listed in any order
ListGet ==
    /\ last.op # "get_backups"
    /\ \E file_path \in ListedFiles :
           \E order \in DirOrders(ListDir(fs, BackupSubdir(file_path))) :
               last' = [NoCall EXCEPT !.op = "get_backups",
                                      !.file_path = file_path,
                                      !.listing = GetBackups(fs, file_path, order)]
    /\ UNCHANGED <<fs, clock, faults, calls, rankVars, concVars, flowVars>>

ListNext ==
    \/ ListTick
    \/ ListBackup
    \/ ListGet

SpecList == ListInit /\ [][ListNext]_vars

\* the files a stored path was created from
SourcesOf(backup_path) ==
    {log[k].file_path : k \in {i \in 1..Len(log) : log[i].backup_path = backup_path}}

\* C38: get_backups(path) returns only backups that were created from
\* path: a backup of a different file in the same directory, or of a file in
\* a different directory, never appears in the list for path.
C38_OnlyOwnBackups ==
    last.op = "get_backups" =>
        \A k \in 1..Len(last.listing) :
            SourcesOf(last.listing[k].path) = {last.file_path}

\* C38 for directories only: every backup in the list for path was created
\* from a file of path's directory whose name starts with path's file name.
C38_OnlyBackupsOfTheDirectory ==
    last.op = "get_backups" =>
        \A k \in 1..Len(last.listing) :
            \A source \in SourcesOf(last.listing[k].path) :
                /\ Dirname(source) = Dirname(last.file_path)
                /\ StartsWith(Basename(source), Basename(last.file_path))

\* the issues of the input, family after family
InputIssues(d) ==
    d.pylint_issues \o d.complexity_issues \o d.maintainability_issues

\* an issue of the output without the key it gained
WithoutPriority(x) == [k \in (DOMAIN x) \ {"priority"} |-> x[k]]

\* how often x occurs in seq
Times(seq, x) == Cardinality({i \in 1..Len(seq) : seq[i] = x})

\* out holds every issue of d exactly once, each with its fields as they
\* were and the one new key 'priority'
IsRankingOf(d, out) ==
    LET input == InputIssues(d)
        stripped == [i \in 1..Len(out) |-> WithoutPriority(out[i])]
    IN  /\ Len(out) = Len(d.pylint_issues) + Len(d.complexity_issues)
                      + Len(d.maintainability_issues)
        /\ \A i \in 1..Len(out) :
              /\ "priority" \in DOMAIN out[i]
              /\ \E j \in 1..Len(input) :
                    /\ DOMAIN out[i] = (DOMAIN input[j]) \cup {"priority"}
                    /\ stripped[i] = input[j]
        /\ \A j \in 1..Len(input) :
              Times(stripped, input[j]) = Times(input, input[j])

\* C39: get_issue_priority returns a permutation of its input: the output
\* holds each style, complexity and maintainability issue of the input
\* exactly once (its length is the sum of the three lengths), every output
\* issue keeps all fields of its input issue and gains only 'priority', and
\* the input is not modified by the call.
C39_RankingIsPermutation ==
    [][(~rank_done /\ rank_done')
          => /\ issues' = issues
             /\ IsRankingOf(issues, ranked')]_vars

\* a ranking of four issues, two of them equal, that is not in the order of
\* the input
C39_Witness ==
    /\ rank_done
    /\ Len(issues.pylint_issues) = 2
    /\ issues.pylint_issues[1] = issues.pylint_issues[2]
    /\ Len(issues.complexity_issues) = 1
    /\ Len(issues.maintainability_issues) = 1
    /\ Len(ranked) = 4
    /\ [i \in 1..4 |-> WithoutPriority(ranked[i])] # InputIssues(issues)

\* the passes of the run that ended without an entry in either list
SkippedPasses ==
    {k \in 1..Len(run.handled) : run.handled[k].outcome = "skipped"}

\* the passes in which apply_edit returned success=true
SuccessfulEdits ==
    {k \in 1..Len(run.handled) : run.handled[k].engine /\ run.handled[k].success}

\* C40: in a run that is not a dry run every selected issue has one pass
\* and one outcome, applied, failed or skipped: the applied list, the
\* failed list and the skipped passes add up to the passes made, at the end
\* of the run to the number of selected issues, and there are no more
\* applied fixes than calls of apply_edit that returned success=true.
C40_ExactlyOneOutcome ==
    (run.phase # "idle" /\ ~run.dry_run) =>
        /\ Len(run.applied) + Len(run.failed) + Cardinality(SkippedPasses)
              = Len(run.handled)
        /\ Len(run.applied) <= Cardinality(SuccessfulEdits)
        /\ RunDone =>
              /\ Len(run.handled) = Len(FirstFive(run.analysis))
              /\ run.report.fixes_applied + run.report.fixes_failed
                 + Cardinality(SkippedPasses) = Len(FirstFive(run.analysis))

\* C40 for runs in which every call of the logger after a successful edit
\* returns: the same.
C40_ExactlyOneOutcomeWhenLogged ==
    (/\ run.phase # "idle"
     /\ ~run.dry_run
     /\ \A k \in 1..Len(run.handled) : run.handled[k].logged # "log_fix_summary")
        => /\ Len(run.applied) + Len(run.failed) + Cardinality(SkippedPasses)
                 = Len(run.handled)
           /\ Len(run.applied) <= Cardinality(SuccessfulEdits)
           /\ RunDone =>
                 /\ Len(run.handled) = Len(FirstFive(run.analysis))
                 /\ run.report.fixes_applied + run.report.fixes_failed
                    + Cardinality(SkippedPasses) = Len(FirstFive(run.analysis))

====
